---- MODULE Spec2Model ----
(***************************************************************************)
(* A model of cghub.cloud.box.Box (src/cghub/cloud/box.py): the polling    *)
(* state-transition waiter, the readiness probe, the EBS volume helpers    *)
(* and the create/adopt binding of a Box to an EC2 instance.               *)
(*                                                                         *)
(* The EC2 control plane and the SSH endpoint are external: the model      *)
(* keeps the provider's own records (instances, volumes, images) apart     *)
(* from the local boto objects the Box holds (resource), which change only *)
(* when the code re-fetches them with update().                            *)
(***************************************************************************)
EXTENDS Integers, Sequences, FiniteSets, TLC

VARIABLES
    instances,      \* provider: instance id -> [state, name, launch_time, public_dns_name]
    volumes,        \* provider: volume id -> [status, zone, name, attach]
    images,         \* provider: image id -> [state]
    instance_id,    \* Box.instance_id
    host_name,      \* Box.host_name
    pc,             \* position of the calling thread
    resource,       \* the boto object handed to __wait_transition / __wait_ready
    from_states,    \* __wait_transition: parameter from_states
    to_state,       \* __wait_transition: parameter to_state
    state_getter,   \* __wait_transition: parameter state_getter ("state" or "status")
    state,          \* __wait_transition: local variable state
    wpc,            \* __wait_transition: position
    sleeps,         \* number of time.sleep( EC2_POLLING_INTERVAL ) calls made
    updates,        \* number of resource.update() calls made
    raises,         \* number of times __wait_transition raised its RuntimeError
    observed,       \* the states __wait_transition has read, in order
    rpc,            \* __wait_ready and its three stages: position
    exc,            \* the exception that left the running operation ("none" if none)
    pending,        \* inside a try block: the exception or return on its way out
    open_sockets,   \* sockets of __wait_ssh_port_open created and not yet closed
    client,         \* the SSHClient of the current attempt of __wait_ssh_working
    streams_open,   \* stdin, stdout, stderr of exec_command are open
    session_host,   \* the host the SSHClient connected to
    line,           \* __wait_ssh_working: local variable line
    port_attempts,  \* connection attempts made by __wait_ssh_port_open
    ssh_attempts,   \* attempts made by __wait_ssh_working
    vpc,            \* get_or_create_volume: position
    vname,          \* get_or_create_volume: local variable name (after line 307)
    results,        \* what each finished call did: [op, arg, outcome, value]
    create_volume_calls,    \* number of connection.create_volume requests made
    volumes0,       \* the provider's volumes before the first call
    requests,       \* the requests the running or last call made to the provider
    terminating,    \* provider: the instances a terminate request was made for
    wrapped,        \* the module's global variable wrapped
    threads,        \* thread -> [box, frames, contexts, exc, calls]: the threads that run
                    \* fabric tasks, each on a Box of its own
    ran             \* the bodies of fabric tasks that have begun, and where they ran

vars == <<instances, volumes, images, instance_id, host_name, pc, resource,
          from_states, to_state, state_getter, state, wpc, sleeps, updates, raises,
          observed, rpc, exc, pending, open_sockets, client, streams_open,
          session_host, line, port_attempts, ssh_attempts, vpc, vname, results,
          create_volume_calls, volumes0, requests, terminating, wrapped, threads, ran>>

providerVars == <<instances, volumes, images>>
boxVars == <<instance_id, host_name>>
waitArgs == <<from_states, to_state, state_getter>>
waitVars == <<from_states, to_state, state_getter, state, wpc, raises, observed>>
sshVars == <<client, streams_open, session_host, line, ssh_attempts>>
readyVars == <<rpc, exc, pending, open_sockets, client, streams_open, session_host,
               line, port_attempts, ssh_attempts>>
volumeVars == <<vpc, vname, results, create_volume_calls, volumes0>>
callVars == <<vpc, vname, create_volume_calls, volumes0>>
guardVars == <<wrapped, threads, ran>>
otherVars == <<instances, volumes, images, instance_id, host_name, pc, resource,
               from_states, to_state, state_getter, state, wpc, sleeps, updates, raises,
               observed, rpc, exc, pending, open_sockets, client, streams_open,
               session_host, line, port_attempts, ssh_attempts, vpc, vname, results,
               create_volume_calls, volumes0, requests, terminating>>

(***************************************************************************)
(* Bounds of the model.                                                    *)
(***************************************************************************)
\* the largest number of polling sleeps one run makes
MaxSleeps == 2
\* the largest number of attempts __wait_ssh_port_open and __wait_ssh_working each make
MaxAttempts == 2
\* the largest number of operations called in one run
MaxCalls == 2
\* the largest number of volumes the provider holds before the first call
MaxVolumes == 2
\* the largest number of instances the provider holds before the first call
MaxInstances == 2
\* the launch times of those instances are drawn from 1..MaxTime
MaxTime == 2

\* the largest number of fabric tasks a thread calls from outside any fabric task
MaxTasks == 2

\* the deepest nesting of fabric tasks
MaxDepth == 2

(***************************************************************************)
(* Values.                                                                 *)
(***************************************************************************)
\* Python's None where a string is expected
None == "<None>"
\* Python's None where a resource id is expected
NoId == 0

InstanceStates == {"pending", "running", "stopping", "stopped", "shutting-down", "terminated"}
VolumeStatuses == {"creating", "available", "in-use"}
ImageStates == {"pending", "available", "failed"}
\* instance.public_dns_name: not set, empty until the provider assigns a name
DnsNames == {None, "", "ec2-a", "ec2-b"}

NoResource == [kind |-> "none"]

\* the boto object for a provider record: the record plus its kind and id
Mirror(kind, id) ==
    [kind |-> kind, id |-> id] @@
    (CASE kind = "instance" -> instances[id]
       [] kind = "volume" -> volumes[id]
       [] kind = "image" -> images[id])

\* state_getter( resource ): lambda resource: resource.state, or volume.status
StateOf(getter, res) == IF getter = "status" THEN res.status ELSE res.state

(***************************************************************************)
(* Box.__wait_transition                                                   *)
(***************************************************************************)
\* variant: while True, a loop that nothing ends
LoopConditionForever(s, from) == TRUE

\* a loop that polls until the target state shows, whatever else it sees
LoopConditionUntilTarget(s, from) == s # to_state

\* while state in from_states
LoopCondition(s, from) == s \in from

\* if state != to_state: raise RuntimeError
ExitRaises(s, to) == s # to

\* a do-while loop: the first sleep and update happen before the first test
WaitEntrySleepFirst ==
    /\ wpc = "entry"
    /\ sleeps' = sleeps + 1
    /\ updates' = updates + 1
    /\ resource' = Mirror(resource.kind, resource.id)
    /\ state' = StateOf(state_getter, resource')
    /\ observed' = Append(observed, state')
    /\ wpc' = "loop"
    /\ UNCHANGED <<providerVars, boxVars, pc, waitArgs, raises, readyVars,
                   volumeVars, requests, guardVars, terminating>>

\* state = state_getter( resource ), before the loop
WaitEntry ==
    /\ wpc = "entry"
    /\ state' = StateOf(state_getter, resource)
    /\ observed' = Append(observed, StateOf(state_getter, resource))
    /\ wpc' = "loop"
    /\ UNCHANGED <<providerVars, boxVars, pc, resource, waitArgs, sleeps, updates, raises,
                   readyVars,
                   volumeVars, requests, guardVars, terminating>>

\* one iteration of the loop: sleep, resource.update( validate=True ), re-read the state
WaitPoll ==
    /\ wpc = "loop"
    /\ LoopCondition(state, from_states)
    /\ sleeps < MaxSleeps
    /\ sleeps' = sleeps + 1
    /\ updates' = updates + 1
    /\ resource' = Mirror(resource.kind, resource.id)
    /\ state' = StateOf(state_getter, resource')
    /\ observed' = Append(observed, state')
    /\ UNCHANGED <<providerVars, boxVars, pc, waitArgs, wpc, raises, readyVars,
                   volumeVars, requests, guardVars, terminating>>

\* the loop is left: raise unless the state is to_state
WaitExit ==
    /\ wpc = "loop"
    /\ ~LoopCondition(state, from_states)
    /\ wpc' = IF ExitRaises(state, to_state) THEN "raised" ELSE "returned"
    /\ raises' = IF ExitRaises(state, to_state) THEN raises + 1 ELSE raises
    /\ UNCHANGED <<providerVars, boxVars, pc, resource, waitArgs, state, sleeps,
                   updates, observed, readyVars,
                   volumeVars, requests, guardVars, terminating>>

WaitNext == WaitEntry \/ WaitPoll \/ WaitExit

(***************************************************************************)
(* Box.__wait_ready and its stages.                                        *)
(***************************************************************************)
\* no __wait_ready is running
ReadyIdle ==
    /\ rpc = "idle"
    /\ exc = "none"
    /\ pending = "none"
    /\ open_sockets = 0
    /\ client = "none"
    /\ streams_open = FALSE
    /\ session_host = None
    /\ line = None
    /\ port_attempts = 0
    /\ ssh_attempts = 0

\* self.__wait_transition( instance, from_states, 'running' ) returned
ReadyTransitionReturned ==
    /\ rpc = "transition"
    /\ wpc = "returned"
    /\ wpc' = "idle"
    /\ rpc' = "hostname"
    /\ UNCHANGED <<providerVars, boxVars, pc, resource, waitArgs, state, sleeps, updates,
                   raises, observed, exc, pending, open_sockets, sshVars, port_attempts,
                   volumeVars, requests, guardVars, terminating>>

\* self.__wait_transition( instance, from_states, 'running' ) raised: so does __wait_ready
ReadyTransitionRaised ==
    /\ rpc = "transition"
    /\ wpc = "raised"
    /\ wpc' = "idle"
    /\ rpc' = "raised"
    /\ exc' = "RuntimeError"
    /\ UNCHANGED <<providerVars, boxVars, pc, resource, waitArgs, state, sleeps, updates,
                   raises, observed, pending, open_sockets, sshVars, port_attempts,
                   volumeVars, requests, guardVars, terminating>>

\* a test that takes any value of public_dns_name for a host name
HostNameAssignedAlways(h) == TRUE

\* if host_name is not None and len( host_name ) > 0
HostNameAssigned(h) == h # None /\ Len(h) > 0

\* variant: the name is stored only in a Box that holds none yet
HostnameBreakKeepsOld ==
    /\ rpc = "hostname"
    /\ HostNameAssigned(resource.public_dns_name)
    /\ host_name' = IF host_name = None THEN resource.public_dns_name ELSE host_name
    /\ rpc' = "port"
    /\ UNCHANGED <<providerVars, instance_id, pc, resource, waitVars, sleeps, updates,
                   exc, pending, open_sockets, sshVars, port_attempts,
                   volumeVars, requests, guardVars, terminating>>

\* __wait_hostname_assigned: the name is there; self.host_name = host_name
HostnameBreak ==
    /\ rpc = "hostname"
    /\ HostNameAssigned(resource.public_dns_name)
    /\ host_name' = resource.public_dns_name
    /\ rpc' = "port"
    /\ UNCHANGED <<providerVars, instance_id, pc, resource, waitVars, sleeps, updates,
                   exc, pending, open_sockets, sshVars, port_attempts,
                   volumeVars, requests, guardVars, terminating>>

\* __wait_hostname_assigned: no name yet; sleep and instance.update( )
HostnamePoll ==
    /\ rpc = "hostname"
    /\ ~HostNameAssigned(resource.public_dns_name)
    /\ sleeps < MaxSleeps
    /\ sleeps' = sleeps + 1
    /\ updates' = updates + 1
    /\ resource' = Mirror(resource.kind, resource.id)
    /\ UNCHANGED <<providerVars, boxVars, pc, waitVars, readyVars,
                   volumeVars, requests, guardVars, terminating>>

\* __wait_ssh_port_open: s = socket.socket( ... )
PortSocket ==
    /\ rpc = "port"
    /\ port_attempts < MaxAttempts
    /\ port_attempts' = port_attempts + 1
    /\ open_sockets' = open_sockets + 1
    /\ rpc' = "port_connect"
    /\ UNCHANGED <<providerVars, boxVars, pc, resource, waitVars, sleeps, updates, exc,
                   pending, sshVars,
                   volumeVars, requests, guardVars, terminating>>

\* what s.connect( (self.host_name, 22) ) may do
ConnectOutcomes == {"return", "socket.error", "socket.timeout", "KeyboardInterrupt"}

\* __wait_ssh_port_open: s.settimeout, s.connect and the return that follows it
PortConnect ==
    /\ rpc = "port_connect"
    /\ \E o \in ConnectOutcomes : pending' = o
    /\ rpc' = "port_finally"
    /\ UNCHANGED <<providerVars, boxVars, pc, resource, waitVars, sleeps, updates, exc,
                   open_sockets, sshVars, port_attempts,
                   volumeVars, requests, guardVars, terminating>>

\* __wait_ssh_port_open: the except clauses: what leaves the try statement
PortHandler(p) == IF p \in {"socket.error", "socket.timeout"} THEN "none" ELSE p

\* __wait_ssh_port_open: finally: s.close( ), then return, loop or propagate
PortFinally ==
    /\ rpc = "port_finally"
    /\ open_sockets' = open_sockets - 1
    /\ pending' = "none"
    /\ rpc' = CASE PortHandler(pending) = "return" -> "ssh"
                [] PortHandler(pending) = "none" -> "port"
                [] OTHER -> "raised"
    /\ exc' = IF PortHandler(pending) \in {"return", "none"} THEN exc
              ELSE PortHandler(pending)
    /\ UNCHANGED <<providerVars, boxVars, pc, resource, waitVars, sleeps, updates, sshVars,
                   port_attempts,
                   volumeVars, requests, guardVars, terminating>>

\* __wait_ssh_working: client = SSHClient( )
SshClient ==
    /\ rpc = "ssh"
    /\ ssh_attempts < MaxAttempts
    /\ ssh_attempts' = ssh_attempts + 1
    /\ client' = "created"
    /\ session_host' = None
    /\ line' = None
    /\ rpc' = "ssh_connect"
    /\ UNCHANGED <<providerVars, boxVars, pc, resource, waitVars, sleeps, updates, exc,
                   pending, open_sockets, streams_open, port_attempts,
                   volumeVars, requests, guardVars, terminating>>

\* what a call into paramiko may raise: an SSHException or socket error (Exception), or
\* the interrupt of the process
SshFailures == {"Exception", "KeyboardInterrupt"}

\* __wait_ssh_working: load_system_host_keys, set_missing_host_key_policy, client.connect
SshConnect ==
    /\ rpc = "ssh_connect"
    /\ \/ /\ client' = "connected"
          /\ session_host' = host_name
          /\ rpc' = "ssh_exec"
          /\ UNCHANGED pending
       \/ /\ \E f \in SshFailures : pending' = f
          /\ rpc' = "ssh_except"
          /\ UNCHANGED <<client, session_host>>
    /\ UNCHANGED <<providerVars, boxVars, pc, resource, waitVars, sleeps, updates, exc,
                   open_sockets, streams_open, line, port_attempts, ssh_attempts,
                   volumeVars, requests, guardVars, terminating>>

\* __wait_ssh_working: stdin, stdout, stderr = client.exec_command( 'echo hi' )
SshExec ==
    /\ rpc = "ssh_exec"
    /\ \/ /\ streams_open' = TRUE
          /\ rpc' = "ssh_readline"
          /\ UNCHANGED pending
       \/ /\ \E f \in SshFailures : pending' = f
          /\ rpc' = "ssh_except"
          /\ UNCHANGED streams_open
    /\ UNCHANGED <<providerVars, boxVars, pc, resource, waitVars, sleeps, updates, exc,
                   open_sockets, client, session_host, line, port_attempts, ssh_attempts,
                   volumeVars, requests, guardVars, terminating>>

\* what stdout.readline( ) may return: the expected line, the text without its newline,
\* nothing at all (end of file), the line with a carriage return, another text
Lines == {"hi\n", "hi", "", "hi\r\n", "bye\n"}

\* a comparison of the stripped line: line.strip( ) == 'hi'
LineExpectedStripped(l) == l \in {"hi\n", "hi", "hi\r\n"}

\* if line == 'hi\n'
LineExpected(l) == l = "hi\n"

\* __wait_ssh_working: line = stdout.readline( ), then return or raise RuntimeError( )
SshReadline ==
    /\ rpc = "ssh_readline"
    /\ \/ \E l \in Lines :
            /\ line' = l
            /\ pending' = IF LineExpected(l) THEN "return" ELSE "RuntimeError"
       \/ /\ \E f \in SshFailures : pending' = f
          /\ UNCHANGED line
    /\ rpc' = "ssh_streams_finally"
    /\ UNCHANGED <<providerVars, boxVars, pc, resource, waitVars, sleeps, updates, exc,
                   open_sockets, client, streams_open, session_host, port_attempts,
                   ssh_attempts,
                   volumeVars, requests, guardVars, terminating>>

\* __wait_ssh_working: inner finally: stdin.close( ), stdout.close( ), stderr.close( )
SshStreamsFinally ==
    /\ rpc = "ssh_streams_finally"
    /\ streams_open' = FALSE
    /\ rpc' = IF pending = "return" THEN "ssh_finally" ELSE "ssh_except"
    /\ UNCHANGED <<providerVars, boxVars, pc, resource, waitVars, sleeps, updates, exc,
                   pending, open_sockets, client, session_host, line, port_attempts,
                   ssh_attempts,
                   volumeVars, requests, guardVars, terminating>>

\* except clauses without the clause for KeyboardInterrupt: the interrupt is logged
\* and dropped like any other exception
SshHandlerSwallowsInterrupt(p) == IF p = "RuntimeError" THEN p ELSE "none"

\* except clauses that let only the interrupt through and retry on everything else
SshHandlerRetryAll(p) == IF p = "KeyboardInterrupt" THEN p ELSE "none"

\* __wait_ssh_working: the except clauses: RuntimeError and KeyboardInterrupt are raised
\* again, any other exception is logged and dropped
SshHandler(p) == IF p \in {"RuntimeError", "KeyboardInterrupt"} THEN p ELSE "none"

\* __wait_ssh_working: an exception reaches the except clauses
SshExcept ==
    /\ rpc = "ssh_except"
    /\ pending' = SshHandler(pending)
    /\ rpc' = "ssh_finally"
    /\ UNCHANGED <<providerVars, boxVars, pc, resource, waitVars, sleeps, updates, exc,
                   open_sockets, sshVars, port_attempts,
                   volumeVars, requests, guardVars, terminating>>

\* client.close( ) as the last statement of the try block and not in a finally clause:
\* the client is closed only when the round trip succeeded
SshFinallyOnReturnOnly ==
    /\ rpc = "ssh_finally"
    /\ client' = IF pending = "return" THEN "closed" ELSE client
    /\ pending' = "none"
    /\ rpc' = CASE pending = "return" -> "done"
                [] pending = "none" -> "ssh_sleep"
                [] OTHER -> "raised"
    /\ exc' = IF pending \in {"return", "none"} THEN exc ELSE pending
    /\ UNCHANGED <<providerVars, boxVars, pc, resource, waitVars, sleeps, updates,
                   open_sockets, streams_open, session_host, line, port_attempts,
                   ssh_attempts,
                   volumeVars, requests, guardVars, terminating>>

\* __wait_ssh_working: outer finally: client.close( ), then return, propagate or go on
SshFinally ==
    /\ rpc = "ssh_finally"
    /\ client' = "closed"
    /\ pending' = "none"
    /\ rpc' = CASE pending = "return" -> "done"
                [] pending = "none" -> "ssh_sleep"
                [] OTHER -> "raised"
    /\ exc' = IF pending \in {"return", "none"} THEN exc ELSE pending
    /\ UNCHANGED <<providerVars, boxVars, pc, resource, waitVars, sleeps, updates,
                   open_sockets, streams_open, session_host, line, port_attempts,
                   ssh_attempts,
                   volumeVars, requests, guardVars, terminating>>

\* __wait_ssh_working: time.sleep( EC2_POLLING_INTERVAL ) at the end of the loop body
SshSleep ==
    /\ rpc = "ssh_sleep"
    /\ sleeps < MaxSleeps
    /\ sleeps' = sleeps + 1
    /\ rpc' = "ssh"
    /\ UNCHANGED <<providerVars, boxVars, pc, resource, waitVars, updates, exc, pending,
                   open_sockets, sshVars, port_attempts,
                   volumeVars, requests, guardVars, terminating>>

ReadyNext ==
    \/ ReadyTransitionReturned
    \/ ReadyTransitionRaised
    \/ HostnameBreak
    \/ HostnamePoll
    \/ PortSocket
    \/ PortConnect
    \/ PortFinally
    \/ SshClient
    \/ SshConnect
    \/ SshExec
    \/ SshReadline
    \/ SshStreamsFinally
    \/ SshExcept
    \/ SshFinally
    \/ SshSleep

(***************************************************************************)
(* Environment, and Box.get_attachable_volume / Box.get_or_create_volume.  *)
(***************************************************************************)
\* env.namespace
namespace == "ns"

\* env.availability_zone
availability_zone == "zoneA"

Zones == {"zoneA", "zoneB"}

\* env.absolute_name( name ): the namespace, a dash, the name
absolute_name(name) == namespace \o "-" \o name

\* the threads that run fabric tasks
Threads == {1, 2}

\* no fabric task has been called: wrapped = False (line 34), and two Boxes that are
\* bound and ready, one for each thread
GuardIdle ==
    /\ wrapped = FALSE
    /\ threads = [t \in Threads |->
                     [box |-> [instance_id |-> t, host_name |-> IF t = 1 THEN "ec2-a" ELSE "ec2-b"],
                      frames |-> <<>>, contexts |-> <<>>, exc |-> "none", calls |-> 0]]
    /\ ran = {}

\* no get_or_create_volume is running and none has run
VolumeIdle ==
    /\ vpc = "idle"
    /\ vname = None
    /\ results = <<>>
    /\ create_volume_calls = 0
    /\ volumes0 = volumes
    /\ requests = <<>>

\* get_attachable_volume( name ): what it returns or raises. The name it is given is
\* made absolute again (line 282) before the volumes are filtered by their Name tag.
get_attachable_volume(name) ==
    LET abs == absolute_name(name)
        found == {v \in DOMAIN volumes : volumes[v].name = abs}
    IN  IF Cardinality(found) < 1 THEN [outcome |-> "returned", value |-> NoId]
        ELSE IF Cardinality(found) > 1
            THEN [outcome |-> "raised", value |-> "More than one EBS volume"]
        ELSE LET v == CHOOSE x \in found : TRUE
             IN  IF volumes[v].status # "available"
                     THEN [outcome |-> "raised", value |-> "not available"]
                 ELSE IF volumes[v].zone # availability_zone
                     THEN [outcome |-> "raised", value |-> "Availability zone"]
                 ELSE [outcome |-> "returned", value |-> v]

\* the names get_or_create_volume is called with
VolumeNames == {"data", "scratch"}

\* a call of get_or_create_volume( name, size ): name = self.env.absolute_name( name )
VolumeCall ==
    /\ vpc = "idle"
    /\ Len(results) < MaxCalls
    /\ \E n \in VolumeNames :
          /\ vname' = absolute_name(n)
          /\ results' = Append(results, [op |-> "get_or_create_volume", arg |-> n,
                                         outcome |-> "running", value |-> NoId,
                                         status |-> None])
    /\ vpc' = "lookup"
    /\ UNCHANGED <<providerVars, boxVars, pc, resource, waitVars, sleeps, updates,
                   readyVars, create_volume_calls, volumes0, requests, guardVars, terminating>>

\* the call ends: it returns value or raises
VolumeEnd(r, outcome, value) ==
    [r EXCEPT ![Len(r)].outcome = outcome,
              ![Len(r)].value = value,
              ![Len(r)].status = IF outcome = "returned" /\ value # NoId
                                 THEN volumes[value].status ELSE None]

\* volume = self.get_attachable_volume( name ); a volume found is returned, an error
\* leaves the call
VolumeLookup ==
    /\ vpc = "lookup"
    /\ LET got == get_attachable_volume(vname)
       IN  IF got.outcome = "returned" /\ got.value = NoId
               THEN /\ vpc' = "create"
                    /\ UNCHANGED results
           ELSE /\ vpc' = "idle"
                /\ results' = VolumeEnd(results, got.outcome, got.value)
    /\ UNCHANGED <<providerVars, boxVars, pc, resource, waitVars, sleeps, updates,
                   readyVars, vname, create_volume_calls, volumes0, requests,
                   guardVars, terminating>>

\* volume = self.connection.create_volume( size, zone ), then the wait for it begins
VolumeCreate ==
    /\ vpc = "create"
    /\ LET id == Cardinality(DOMAIN volumes) + 1
       IN  /\ volumes' = volumes @@ (id :> [status |-> "creating",
                                            zone |-> availability_zone,
                                            name |-> "", attach |-> NoId])
           /\ resource' = [kind |-> "volume", id |-> id, status |-> "creating",
                           zone |-> availability_zone, name |-> "", attach |-> NoId]
    /\ create_volume_calls' = create_volume_calls + 1
    /\ from_states' = {"creating"}
    /\ to_state' = "available"
    /\ state_getter' = "status"
    /\ wpc' = "entry"
    /\ observed' = <<>>
    /\ vpc' = "wait"
    /\ UNCHANGED <<instances, images, boxVars, pc, state, raises, sleeps, updates,
                   readyVars, vname, results, volumes0, requests, guardVars, terminating>>

\* __wait_volume_transition returned: volume.add_tag( 'Name', name )
VolumeTag ==
    /\ vpc = "wait"
    /\ wpc = "returned"
    /\ wpc' = "idle"
    /\ volumes' = [volumes EXCEPT ![resource.id].name = vname]
    /\ vpc' = "resolve"
    /\ UNCHANGED <<instances, images, boxVars, pc, resource, waitArgs, state, raises,
                   observed, sleeps, updates, readyVars, vname, results,
                   create_volume_calls, volumes0, requests, guardVars, terminating>>

\* __wait_volume_transition raised: so does get_or_create_volume
VolumeWaitRaised ==
    /\ vpc = "wait"
    /\ wpc = "raised"
    /\ wpc' = "idle"
    /\ vpc' = "idle"
    /\ results' = VolumeEnd(results, "raised", "Expected state")
    /\ UNCHANGED <<providerVars, boxVars, pc, resource, waitArgs, state, raises,
                   observed, sleeps, updates, readyVars, vname, create_volume_calls,
                   volumes0, requests, guardVars, terminating>>

\* volume = self.get_attachable_volume( name ); return volume
VolumeResolve ==
    /\ vpc = "resolve"
    /\ LET got == get_attachable_volume(vname)
       IN  results' = VolumeEnd(results, got.outcome, got.value)
    /\ vpc' = "idle"
    /\ UNCHANGED <<providerVars, boxVars, pc, resource, waitVars, sleeps, updates,
                   readyVars, vname, create_volume_calls, volumes0, requests,
                   guardVars, terminating>>

VolumeNext ==
    \/ VolumeCall
    \/ VolumeLookup
    \/ VolumeCreate
    \/ VolumeTag
    \/ VolumeWaitRaised
    \/ VolumeResolve

(***************************************************************************)
(* Box.create and Box.adopt.                                               *)
(***************************************************************************)
\* Box.role( ): the class name in snake case
role == "box"

\* another role, whose instances carry another Name tag
other_role == "other-box"

\* Box.absolute_role( )
absolute_role == absolute_name(role)

\* the orders in which a set of ids can be listed
Listings(S) ==
    {f \in [1..Cardinality(S) -> S] : \A i, j \in 1..Cardinality(S) : i # j => f[i] # f[j]}

\* connection.get_all_instances( filters={ 'tag:Name': name } ): the instances that
\* carry the tag, in any order
get_all_instances(name) == Listings({i \in DOMAIN instances : instances[i].name = name})

\* x put into a sequence sorted by launch_time, behind the elements that are not later
Insert(x, sorted) ==
    LET before == SelectSeq(sorted,
                            LAMBDA y : instances[y].launch_time <= instances[x].launch_time)
        after == SelectSeq(sorted,
                           LAMBDA y : instances[y].launch_time > instances[x].launch_time)
    IN  before \o <<x>> \o after

\* variant: the list is left in the order the provider gave it
SortNot(seq) == seq

RECURSIVE SortByLaunchTime(_)
\* instances.sort( key=attrgetter( 'launch_time' ) ): a stable sort
SortByLaunchTime(seq) ==
    IF seq = <<>> THEN <<>>
    ELSE Insert(seq[Len(seq)], SortByLaunchTime(SubSeq(seq, 1, Len(seq) - 1)))

\* __list_instances, given the provider's answer: drop the terminated, sort
list_instances(listing) ==
    SortByLaunchTime(SelectSeq(listing, LAMBDA i : instances[i].state # "terminated"))

\* seq[ k ] in Python: from the front for k >= 0, from the back for k < 0
Index(seq, k) ==
    IF 0 <= k /\ k < Len(seq) THEN [outcome |-> "returned", value |-> seq[k + 1]]
    ELSE IF k < 0 /\ 0 - Len(seq) <= k
        THEN [outcome |-> "returned", value |-> seq[Len(seq) + k + 1]]
    ELSE [outcome |-> "raised", value |-> "IndexError"]

\* variant: without an ordinal the first instance is taken, however many there are
get_first_when_ambiguous(sorted, ordinal) ==
    IF sorted = <<>> THEN [outcome |-> "raised", value |-> "No instance performing role"]
    ELSE IF ordinal = <<>> THEN Index(sorted, 0)
    ELSE Index(sorted, ordinal[1])

\* __get_instance_by_ordinal, given the sorted list; ordinal is <<>> for None, <<k>> for k
get_instance_by_ordinal(sorted, ordinal) ==
    IF sorted = <<>> THEN [outcome |-> "raised", value |-> "No instance performing role"]
    ELSE IF ordinal = <<>>
        THEN IF Len(sorted) > 1
                 THEN [outcome |-> "raised", value |-> "More than one instance"]
             ELSE Index(sorted, 0)
    ELSE Index(sorted, ordinal[1])

\* the ordinals adopt is called with: None, and every index from -1 to MaxInstances
Ordinals == {<<>>} \cup {<<k>> : k \in (0 - 1)..MaxInstances}

\* the entry to __wait_ready( instance, from_states ) and its first call, that
\* of __wait_transition( instance, from_states, 'running' )
StartWaitReady(instance, from) ==
    /\ resource' = instance
    /\ from_states' = from
    /\ to_state' = "running"
    /\ state_getter' = "state"
    /\ wpc' = "entry"
    /\ observed' = <<>>
    /\ rpc' = "transition"
    /\ exc' = "none"
    /\ pending' = "none"
    /\ client' = "none"
    /\ session_host' = None
    /\ line' = None
    /\ port_attempts' = 0
    /\ ssh_attempts' = 0
    /\ UNCHANGED <<state, raises, open_sockets, streams_open>>

\* a call of a Box operation begins
Called(op, arg) ==
    Append(results, [op |-> op, arg |-> arg, outcome |-> "running", value |-> NoId,
                     before |-> instances, bound |-> instance_id])

\* the running call ends
Ended(r, outcome, value) ==
    [r EXCEPT ![Len(r)].outcome = outcome, ![Len(r)].value = value]

\* variant: create on a bound Box returns without a word
CreateBoundSilently ==
    /\ pc = "idle"
    /\ Len(results) < MaxCalls
    /\ instance_id # NoId
    /\ results' = Ended(Called("create", <<>>), "returned", NoId)
    /\ requests' = <<>>
    /\ UNCHANGED <<providerVars, boxVars, pc, resource, waitVars, sleeps, updates,
                   readyVars, callVars, guardVars, terminating>>

\* create on a bound Box: raise RuntimeError( "Instance already adopted or created" )
CreateBound ==
    /\ pc = "idle"
    /\ Len(results) < MaxCalls
    /\ instance_id # NoId
    /\ results' = Ended(Called("create", <<>>), "raised", "RuntimeError")
    /\ requests' = <<>>
    /\ UNCHANGED <<providerVars, boxVars, pc, resource, waitVars, sleeps, updates,
                   readyVars, callVars, guardVars, terminating>>

\* variant: create without _post_instance_creation: the instance is not tagged
CreateUntagged ==
    /\ pc = "idle"
    /\ Len(results) < MaxCalls
    /\ instance_id = NoId
    /\ LET id == Cardinality(DOMAIN instances) + 1
           now == MaxTime + 1
           instance == [state |-> "pending", name |-> "", launch_time |-> now,
                        public_dns_name |-> ""]
       IN  /\ instances' = instances @@ (id :> instance)
           /\ instance_id' = id
           /\ StartWaitReady([kind |-> "instance", id |-> id] @@ instance, {"pending"})
    /\ requests' = <<"run_instances">>
    /\ results' = Called("create", <<>>)
    /\ pc' = "create"
    /\ UNCHANGED <<volumes, images, host_name, sleeps, updates, callVars,
                   guardVars, terminating>>

\* create on an unbound Box: run_instances, bind, tag, then __wait_ready begins
Create ==
    /\ pc = "idle"
    /\ Len(results) < MaxCalls
    /\ instance_id = NoId
    /\ LET id == Cardinality(DOMAIN instances) + 1
           now == MaxTime + 1
           instance == [state |-> "pending", name |-> "", launch_time |-> now,
                        public_dns_name |-> ""]
       IN  /\ instances' = instances @@ (id :> [instance EXCEPT !.name = absolute_role])
           /\ instance_id' = id
           /\ StartWaitReady([kind |-> "instance", id |-> id] @@ instance, {"pending"})
    /\ requests' = <<"run_instances", "add_tag">>
    /\ results' = Called("create", <<>>)
    /\ pc' = "create"
    /\ UNCHANGED <<volumes, images, host_name, sleeps, updates, callVars,
                   guardVars, terminating>>

\* adopt on a bound Box: the body is skipped and the call returns, whatever ordinal
\* and wait_ready it was given: neither is looked at
AdoptBound ==
    /\ pc = "idle"
    /\ Len(results) < MaxCalls
    /\ instance_id # NoId
    /\ results' = Ended(Called("adopt", <<>>), "returned", NoId)
    /\ requests' = <<>>
    /\ UNCHANGED <<providerVars, boxVars, pc, resource, waitVars, sleeps, updates,
                   readyVars, callVars, guardVars, terminating>>

\* variant: an adopt that is to wait does not bind the Box before it waits
AdoptWaitsUnbound(wait_ready) ==
    /\ pc = "idle"
    /\ Len(results) < MaxCalls
    /\ instance_id = NoId
    /\ \E ordinal \in Ordinals, listing \in get_all_instances(absolute_role) :
          LET got == get_instance_by_ordinal(list_instances(listing), ordinal)
              call == Called("adopt", [ordinal |-> ordinal, wait_ready |-> wait_ready])
          IN  IF got.outcome = "raised"
                  THEN /\ results' = Ended(call, "raised", got.value)
                       /\ UNCHANGED <<boxVars, pc, resource, waitVars, readyVars>>
              ELSE /\ UNCHANGED host_name
                   /\ IF wait_ready
                          THEN /\ StartWaitReady(Mirror("instance", got.value), {"pending"})
                               /\ results' = call
                               /\ pc' = "adopt"
                               /\ UNCHANGED instance_id
                      ELSE /\ results' = Ended(call, "returned", NoId)
                           /\ instance_id' = got.value
                           /\ UNCHANGED <<pc, resource, waitVars, readyVars>>
    /\ requests' = <<"get_all_instances">>
    /\ UNCHANGED <<providerVars, sleeps, updates, callVars, guardVars, terminating>>

\* adopt( ordinal, wait_ready ) on an unbound Box: look the instance up; bind it; wait
\* for it if asked to
AdoptUnbound(wait_ready) ==
    /\ pc = "idle"
    /\ Len(results) < MaxCalls
    /\ instance_id = NoId
    /\ \E ordinal \in Ordinals, listing \in get_all_instances(absolute_role) :
          LET got == get_instance_by_ordinal(list_instances(listing), ordinal)
              call == Called("adopt", [ordinal |-> ordinal, wait_ready |-> wait_ready])
          IN  IF got.outcome = "raised"
                  THEN /\ results' = Ended(call, "raised", got.value)
                       /\ UNCHANGED <<boxVars, pc, resource, waitVars, readyVars>>
              ELSE /\ instance_id' = got.value
                   /\ UNCHANGED host_name
                   /\ IF wait_ready
                          THEN /\ StartWaitReady(Mirror("instance", got.value), {"pending"})
                               /\ results' = call
                               /\ pc' = "adopt"
                      ELSE /\ results' = Ended(call, "returned", NoId)
                           /\ UNCHANGED <<pc, resource, waitVars, readyVars>>
    /\ requests' = <<"get_all_instances">>
    /\ UNCHANGED <<providerVars, sleeps, updates, callVars, guardVars, terminating>>

\* adopt on an unbound Box, with either wait_ready
Adopt == \E wait_ready \in BOOLEAN : AdoptUnbound(wait_ready)

\* adopt( ordinal, wait_ready=False ) on an unbound Box
AdoptAtOnce == AdoptUnbound(FALSE)

\* the operation is left: the locals of __wait_ready and __wait_transition are gone, and
\* the next call counts its sleeps and updates anew
Leave ==
    /\ resource' = NoResource
    /\ from_states' = {}
    /\ to_state' = None
    /\ state_getter' = "state"
    /\ state' = None
    /\ wpc' = "idle"
    /\ observed' = <<>>
    /\ sleeps' = 0
    /\ updates' = 0
    /\ rpc' = "idle"
    /\ exc' = "none"
    /\ pending' = "none"
    /\ client' = "none"
    /\ session_host' = None
    /\ line' = None
    /\ port_attempts' = 0
    /\ ssh_attempts' = 0
    /\ raises' = 0
    /\ UNCHANGED <<open_sockets, streams_open>>

\* the running call ends after a __wait_ready: the states its __wait_transition read
\* are kept, and whether __wait_ssh_working has read the line it expects
EndedAfterReady(r, outcome, value) ==
    [r EXCEPT ![Len(r)] = [seen |-> observed, ready |-> (rpc = "done" /\ line = "hi\n")] @@
                          [@ EXCEPT !.outcome = outcome, !.value = value]]

\* __wait_ready returned: so does the operation that called it; the public_dns_name
\* that the instance object held last is kept in the call's value
CallReturns ==
    /\ pc \in {"create", "adopt", "start", "reboot_start"}
    /\ rpc = "done"
    /\ pc' = "idle"
    /\ results' = EndedAfterReady(results, "returned", resource.public_dns_name)
    /\ Leave
    /\ UNCHANGED <<providerVars, boxVars, callVars, requests, guardVars, terminating>>

\* __wait_ready raised: so does the operation that called it
CallRaises ==
    /\ pc \in {"create", "adopt", "start", "reboot_start"}
    /\ rpc = "raised"
    /\ pc' = "idle"
    /\ results' = EndedAfterReady(results, "raised", exc)
    /\ Leave
    /\ UNCHANGED <<providerVars, boxVars, callVars, requests, guardVars, terminating>>

BoxNext ==
    \/ CreateBound
    \/ Create
    \/ AdoptBound
    \/ Adopt
    \/ CallReturns
    \/ CallRaises

(***************************************************************************)
(* The operations on the instance: needs_instance, Box.terminate,          *)
(* Box.create_image, Box.attach_volume.                                    *)
(***************************************************************************)
\* the operations that change the instance and are decorated with @needs_instance
NeedsInstanceOps == {"create_image", "stop", "start", "reboot", "attach_volume"}

\* variant: the decorator lets the call through and the call ends quietly
NeedsInstanceLetsThrough ==
    /\ pc = "idle"
    /\ Len(results) < MaxCalls
    /\ instance_id = NoId
    /\ \E op \in NeedsInstanceOps :
          results' = Ended(Called(op, <<>>), "returned", NoId)
    /\ requests' = <<>>
    /\ UNCHANGED <<providerVars, boxVars, pc, resource, waitVars, sleeps, updates,
                   readyVars, callVars, guardVars, terminating>>

\* wrapped_method on an unbound Box: raise RuntimeError( "Instance ID not set" ), the
\* method is not entered
NeedsInstanceRaises ==
    /\ pc = "idle"
    /\ Len(results) < MaxCalls
    /\ instance_id = NoId
    /\ \E op \in NeedsInstanceOps :
          results' = Ended(Called(op, <<>>), "raised", "RuntimeError")
    /\ requests' = <<>>
    /\ UNCHANGED <<providerVars, boxVars, pc, resource, waitVars, sleeps, updates,
                   readyVars, callVars, guardVars, terminating>>

\* a call of __wait_transition( res, from, to, state_getter ) begins
StartWait(res, from, to, getter) ==
    /\ resource' = res
    /\ from_states' = from
    /\ to_state' = to
    /\ state_getter' = getter
    /\ wpc' = "entry"
    /\ observed' = <<>>
    /\ UNCHANGED <<state, raises>>

\* the running call ends after a __wait_transition: the states that one read are kept
EndedAfterWait(r, outcome, value) ==
    [r EXCEPT ![Len(r)] = [seen |-> observed] @@
                          [@ EXCEPT !.outcome = outcome, !.value = value]]

\* terminate on an unbound Box: the body is skipped and the call returns
TerminateUnbound ==
    /\ pc = "idle"
    /\ Len(results) < MaxCalls
    /\ instance_id = NoId
    /\ \E wait \in BOOLEAN :
          results' = Ended(Called("terminate", [wait |-> wait]), "returned", NoId)
    /\ requests' = <<>>
    /\ UNCHANGED <<providerVars, boxVars, pc, resource, waitVars, sleeps, updates,
                   readyVars, callVars, guardVars, terminating>>

\* the from_states terminate waits through
TerminateFromStates == {"running", "shutting-down", "stopped"}

\* instance._state != 'terminated', where _state is an attribute private to the
\* library's Instance: if it holds the name of the state (by_name), the test fails for a
\* terminated instance; if it holds an object that is no string, the test never fails
StateAttributeDiffers(instance, by_name) == ~by_name \/ instance.state # "terminated"

\* terminate( wait ) on a bound Box: get_instance; unless it is found terminated, ask
\* for its termination and, if wait, begin to wait with the instance as it was fetched
Terminate ==
    /\ pc = "idle"
    /\ Len(results) < MaxCalls
    /\ instance_id # NoId
    /\ \E wait \in BOOLEAN, by_name \in BOOLEAN :
          LET instance == Mirror("instance", instance_id)
              call == Called("terminate", [wait |-> wait])
          IN  IF StateAttributeDiffers(instance, by_name)
                  THEN /\ requests' = <<"get_all_instances", "terminate_instances">>
                       /\ terminating' = terminating \cup {instance_id}
                       /\ IF wait
                              THEN /\ StartWait(instance, TerminateFromStates, "terminated",
                                                "state")
                                   /\ results' = call
                                   /\ pc' = "terminate"
                          ELSE /\ results' = Ended(call, "returned", NoId)
                               /\ UNCHANGED <<pc, resource, waitVars>>
              ELSE /\ requests' = <<"get_all_instances">>
                   /\ results' = Ended(call, "returned", NoId)
                   /\ UNCHANGED <<pc, resource, waitVars, terminating>>
    /\ UNCHANGED <<providerVars, boxVars, sleeps, updates, readyVars, callVars, guardVars>>

\* variant: a terminate that has seen the instance terminated unbinds the Box
TerminateReturnsUnbound ==
    /\ pc = "terminate"
    /\ wpc = "returned"
    /\ pc' = "idle"
    /\ results' = EndedAfterWait(results, "returned", NoId)
    /\ Leave
    /\ instance_id' = NoId
    /\ UNCHANGED <<providerVars, host_name, callVars, requests, guardVars, terminating>>

\* the __wait_transition of terminate returned: so does terminate
TerminateReturns ==
    /\ pc = "terminate"
    /\ wpc = "returned"
    /\ pc' = "idle"
    /\ results' = EndedAfterWait(results, "returned", NoId)
    /\ Leave
    /\ UNCHANGED <<providerVars, boxVars, callVars, requests, guardVars, terminating>>

\* the __wait_transition of terminate raised: so does terminate
TerminateRaises ==
    /\ pc = "terminate"
    /\ wpc = "raised"
    /\ pc' = "idle"
    /\ results' = EndedAfterWait(results, "raised", "RuntimeError")
    /\ Leave
    /\ UNCHANGED <<providerVars, boxVars, callVars, requests, guardVars, terminating>>

\* variant: __expect_state finds nothing wrong, whatever the state
ExpectStateLax(actual_state, expected_state) == FALSE

\* __expect_state: if actual_state != expected_state: raise RuntimeError
ExpectStateRaises(actual_state, expected_state) == actual_state # expected_state

\* create_image on a bound Box: __expect_state( 'stopped' ), then
\* connection.create_image; the id it returns is kept in the call's value, and the
\* error codes that connection.get_image answers with will be kept in its errors
CreateImage ==
    /\ pc = "idle"
    /\ Len(results) < MaxCalls
    /\ instance_id # NoId
    /\ LET instance == Mirror("instance", instance_id)
           call == Called("create_image", <<>>)
           image_id == Cardinality(DOMAIN images) + 1
       IN  IF ExpectStateRaises(instance.state, "stopped")
               THEN /\ requests' = <<"get_all_instances">>
                    /\ results' = Ended(call, "raised", "RuntimeError")
                    /\ UNCHANGED <<images, pc>>
           ELSE /\ requests' = <<"get_all_instances", "create_image">>
                /\ images' = images @@ (image_id :> [state |-> "pending"])
                /\ results' = [call EXCEPT ![Len(call)] = [errors |-> <<>>] @@
                                                          [@ EXCEPT !.value = image_id]]
                /\ pc' = "get_image"
    /\ UNCHANGED <<instances, volumes, boxVars, resource, waitVars, sleeps, updates,
                   readyVars, callVars, guardVars, terminating>>

\* the error codes of the ResponseError that connection.get_image raises
ErrorCodes == {"InvalidAMIID.NotFound", "RequestLimitExceeded", "AuthFailure"}

\* variant: every ResponseError is taken for the image not being there yet
GetImageRetriesAll(error_code) == FALSE

\* except self.connection.ResponseError as e: if e.error_code != 'InvalidAMIID.NotFound':
\* raise
GetImageRaises(error_code) == error_code # "InvalidAMIID.NotFound"

\* the number of connection.get_image requests the running create_image has made
GetImageCalls == Cardinality({k \in 1..Len(requests) : requests[k] = "get_image"})

\* one turn of the loop around connection.get_image( image_id ): the image comes back
\* and __wait_transition( image, { 'pending' }, 'available' ) begins, or a ResponseError
\* is raised, which ends the call unless its code says that the image is not there yet
GetImage ==
    /\ pc = "get_image"
    /\ requests' = Append(requests, "get_image")
    /\ LET image_id == results[Len(results)].value
       IN  \/ /\ StartWait(Mirror("image", image_id), {"pending"}, "available", "state")
              /\ pc' = "create_image_wait"
              /\ UNCHANGED results
           \/ \E error_code \in ErrorCodes :
                 /\ GetImageCalls < MaxAttempts
                 /\ LET noted == [results EXCEPT ![Len(results)].errors =
                                                      Append(@, error_code)]
                    IN  IF GetImageRaises(error_code)
                            THEN /\ results' = Ended(noted, "raised", error_code)
                                 /\ pc' = "idle"
                        ELSE /\ results' = noted
                             /\ UNCHANGED pc
                 /\ UNCHANGED <<resource, waitVars>>
    /\ UNCHANGED <<providerVars, boxVars, sleeps, updates, readyVars, callVars, guardVars,
                   terminating>>

\* the __wait_transition of create_image returned: return image_id
CreateImageReturns ==
    /\ pc = "create_image_wait"
    /\ wpc = "returned"
    /\ pc' = "idle"
    /\ results' = EndedAfterWait(results, "returned", results[Len(results)].value)
    /\ Leave
    /\ UNCHANGED <<providerVars, boxVars, callVars, requests, guardVars, terminating>>

\* the __wait_transition of create_image raised: so does create_image
CreateImageRaises ==
    /\ pc = "create_image_wait"
    /\ wpc = "raised"
    /\ pc' = "idle"
    /\ results' = EndedAfterWait(results, "raised", "RuntimeError")
    /\ Leave
    /\ UNCHANGED <<providerVars, boxVars, callVars, requests, guardVars, terminating>>

\* variant: the attachment is not looked at
AttachedAnywhere(volume) == FALSE

\* if volume.attach_data.instance_id != self.instance_id: raise RuntimeError
AttachedElsewhere(volume) == volume.attach # instance_id

\* attach_volume( volume, device ) on a bound Box: connection.attach_volume, which the
\* provider turns down with a ResponseError or takes up, noting the instance for a
\* volume that is free; then __wait_volume_transition( volume, { 'available' }, 'in-use' )
\* begins with the volume object as the caller fetched it
AttachVolume ==
    /\ pc = "idle"
    /\ Len(results) < MaxCalls
    /\ instance_id # NoId
    /\ \E v \in DOMAIN volumes :
          LET call == Called("attach_volume", [volume |-> v])
          IN  \/ /\ results' = Ended(call, "raised", "ResponseError")
                 /\ UNCHANGED <<volumes, pc, resource, waitVars>>
              \/ /\ volumes' = IF volumes[v].status = "available" /\ volumes[v].attach = NoId
                                THEN [volumes EXCEPT ![v].attach = instance_id]
                                ELSE volumes
                 /\ StartWait(Mirror("volume", v), {"available"}, "in-use", "status")
                 /\ results' = call
                 /\ pc' = "attach_volume"
    /\ requests' = <<"attach_volume">>
    /\ UNCHANGED <<instances, images, boxVars, sleeps, updates, readyVars, callVars,
                   guardVars, terminating>>

\* the __wait_volume_transition of attach_volume returned: raise if the volume is
\* attached to another instance, return otherwise; what the volume object said is kept
\* in the call's value
AttachVolumeChecks ==
    /\ pc = "attach_volume"
    /\ wpc = "returned"
    /\ pc' = "idle"
    /\ results' = EndedAfterWait(results,
                                 IF AttachedElsewhere(resource) THEN "raised" ELSE "returned",
                                 resource.attach)
    /\ Leave
    /\ UNCHANGED <<providerVars, boxVars, callVars, requests, guardVars, terminating>>

\* the __wait_volume_transition of attach_volume raised: so does attach_volume
AttachVolumeRaises ==
    /\ pc = "attach_volume"
    /\ wpc = "raised"
    /\ pc' = "idle"
    /\ results' = EndedAfterWait(results, "raised", NoId)
    /\ Leave
    /\ UNCHANGED <<providerVars, boxVars, callVars, requests, guardVars, terminating>>

(***************************************************************************)
(* Box.stop, Box.start, Box.reboot.                                        *)
(***************************************************************************)
\* variant: stop waits through no state
StopFromStatesNone == {}

\* the from_states stop waits through
StopFromStates == {"running", "stopping"}

\* the from_states start waits through
StartFromStates == {"stopped", "pending"}

\* the body of stop, entered by op on a bound Box: __expect_state( 'running' ), then
\* connection.stop_instances, then __wait_transition begins with the instance as
\* __expect_state fetched it
StopBody(op, at) ==
    /\ pc = "idle"
    /\ Len(results) < MaxCalls
    /\ instance_id # NoId
    /\ LET instance == Mirror("instance", instance_id)
           call == Called(op, <<>>)
       IN  IF ExpectStateRaises(instance.state, "running")
               THEN /\ requests' = <<"get_all_instances">>
                    /\ results' = Ended(call, "raised", "RuntimeError")
                    /\ UNCHANGED <<pc, resource, waitVars>>
           ELSE /\ requests' = <<"get_all_instances", "stop_instances">>
                /\ StartWait(instance, StopFromStates, "stopped", "state")
                /\ results' = call
                /\ pc' = at
    /\ UNCHANGED <<providerVars, boxVars, sleeps, updates, readyVars, callVars, guardVars,
                   terminating>>

\* stop on a bound Box
Stop == StopBody("stop", "stop")

\* reboot on a bound Box: self.stop( ) is entered
Reboot == StopBody("reboot", "reboot_stop")

\* the __wait_transition of stop returned: so does stop
StopReturns ==
    /\ pc = "stop"
    /\ wpc = "returned"
    /\ pc' = "idle"
    /\ results' = EndedAfterWait(results, "returned", NoId)
    /\ Leave
    /\ UNCHANGED <<providerVars, boxVars, callVars, requests, guardVars, terminating>>

\* the __wait_transition of stop raised: so does stop, and so does a reboot that
\* called it
StopRaises ==
    /\ pc \in {"stop", "reboot_stop"}
    /\ wpc = "raised"
    /\ pc' = "idle"
    /\ results' = EndedAfterWait(results, "raised", "RuntimeError")
    /\ Leave
    /\ UNCHANGED <<providerVars, boxVars, callVars, requests, guardVars, terminating>>

\* the body of start on a bound Box, in the call that is the last of call, which has
\* made the requests made: __expect_state( 'stopped' ), then connection.start_instances,
\* then __wait_ready begins with the instance as __expect_state fetched it
StartBody(call, made, at) ==
    /\ instance_id # NoId
    /\ LET instance == Mirror("instance", instance_id)
       IN  IF ExpectStateRaises(instance.state, "stopped")
               THEN /\ requests' = made \o <<"get_all_instances">>
                    /\ results' = Ended(call, "raised", "RuntimeError")
                    /\ pc' = "idle"
                    /\ Leave
           ELSE /\ requests' = made \o <<"get_all_instances", "start_instances">>
                /\ StartWaitReady(instance, StartFromStates)
                /\ sleeps' = 0
                /\ updates' = 0
                /\ results' = call
                /\ pc' = at
    /\ UNCHANGED <<providerVars, boxVars, callVars, guardVars, terminating>>

\* start on a bound Box
Start ==
    /\ pc = "idle"
    /\ Len(results) < MaxCalls
    /\ StartBody(Called("start", <<>>), <<>>, "start")

\* variant: reboot goes on to self.start( ) when self.stop( ) has raised, too
RebootStartsAnyway ==
    /\ pc = "reboot_stop"
    /\ wpc \in {"returned", "raised"}
    /\ StartBody([results EXCEPT ![Len(results)] = [stop_seen |-> observed] @@ @],
                 requests, "reboot_start")

\* reboot: self.stop( ) has returned and self.start( ) is entered; the states that stop
\* read are kept in the call's stop_seen
RebootStarts ==
    /\ pc = "reboot_stop"
    /\ wpc = "returned"
    /\ StartBody([results EXCEPT ![Len(results)] = [stop_seen |-> observed] @@ @],
                 requests, "reboot_start")

LifeNext ==
    \/ Stop
    \/ StopReturns
    \/ StopRaises
    \/ Start
    \/ Reboot
    \/ RebootStarts

OpsNext ==
    \/ NeedsInstanceRaises
    \/ TerminateUnbound
    \/ Terminate
    \/ TerminateReturns
    \/ TerminateRaises
    \/ CreateImage
    \/ GetImage
    \/ CreateImageReturns
    \/ CreateImageRaises
    \/ AttachVolume
    \/ AttachVolumeChecks
    \/ AttachVolumeRaises

(***************************************************************************)
(* fabric_task: wrapper( box, ... ) around the function of a fabric task,  *)
(* and Box._execute. A thread's frames are its calls in progress, the      *)
(* innermost last: wrappers and the functions they wrap, in turn.          *)
(***************************************************************************)
Top(t) == threads[t].frames[Len(threads[t].frames)]

\* the frames without the innermost
Popped(t) == SubSeq(threads[t].frames, 1, Len(threads[t].frames) - 1)

\* the frames with the innermost at another position
Moved(t, to) == [threads[t].frames EXCEPT ![Len(threads[t].frames)].pc = to]

AtWrapper(t, at) ==
    /\ threads[t].frames # <<>>
    /\ Top(t).fn = "wrapper"
    /\ Top(t).pc = at

AtFunction(t, at) ==
    /\ threads[t].frames # <<>>
    /\ Top(t).fn = "function"
    /\ Top(t).pc = at

\* a fabric task is called from outside any fabric task
TaskCall(t) ==
    /\ threads[t].frames = <<>>
    /\ threads[t].calls < MaxTasks
    /\ threads' = [threads EXCEPT ![t].frames = <<[fn |-> "wrapper", pc |-> "test"]>>,
                                  ![t].exc = "none",
                                  ![t].calls = @ + 1]
    /\ UNCHANGED <<wrapped, ran, otherVars>>

\* the function of a fabric task calls another fabric task
TaskNested(t) ==
    /\ AtFunction(t, "run")
    /\ Len(threads[t].frames) < 2 * MaxDepth
    /\ threads' = [threads EXCEPT ![t].frames =
                       Append(Moved(t, "calling"), [fn |-> "wrapper", pc |-> "test"])]
    /\ UNCHANGED <<wrapped, ran, otherVars>>

\* variant: no test of wrapped, every call goes through box._execute
GuardTestNever(t) ==
    /\ AtWrapper(t, "test")
    /\ threads' = [threads EXCEPT ![t].frames = Moved(t, "set")]
    /\ UNCHANGED <<wrapped, ran, otherVars>>

\* if wrapped: return function( box, *args, **kwargs ); else: the other branch
GuardTest(t) ==
    /\ AtWrapper(t, "test")
    /\ threads' = [threads EXCEPT ![t].frames =
                       IF wrapped
                           THEN Append(Moved(t, "direct"), [fn |-> "function", pc |-> "begin"])
                       ELSE Moved(t, "set")]
    /\ UNCHANGED <<wrapped, ran, otherVars>>

\* wrapped = True
GuardSet(t) ==
    /\ AtWrapper(t, "set")
    /\ wrapped' = TRUE
    /\ threads' = [threads EXCEPT ![t].frames = Moved(t, "execute")]
    /\ UNCHANGED <<ran, otherVars>>

\* box._execute( partial( function, box, ... ) ): needs_instance raises on an unbound
\* Box; else execute( task, hosts=[ host ] ) opens the remote context of the Box's
\* host and calls the function in it
Execute(t) ==
    /\ AtWrapper(t, "execute")
    /\ threads' = IF threads[t].box.instance_id = NoId
                      THEN [threads EXCEPT ![t].frames = Moved(t, "finally"),
                                           ![t].exc = "RuntimeError"]
                  ELSE [threads EXCEPT
                           ![t].frames = Append(Moved(t, "executing"),
                                                [fn |-> "function", pc |-> "begin"]),
                           ![t].contexts = Append(@, threads[t].box.host_name)]
    /\ UNCHANGED <<wrapped, ran, otherVars>>

\* the function of a fabric task begins: the remote contexts it runs in are noted,
\* and whether it was called from outside any fabric task
FunctionBegins(t) ==
    /\ AtFunction(t, "begin")
    /\ ran' = ran \cup {[thread |-> t, contexts |-> threads[t].contexts,
                          outermost |-> Len(threads[t].frames) = 2]}
    /\ threads' = [threads EXCEPT ![t].frames = Moved(t, "run")]
    /\ UNCHANGED <<wrapped, otherVars>>

\* the function of a fabric task returns or raises
FunctionEnds(t) ==
    /\ AtFunction(t, "run")
    /\ \E e \in {"none", "Exception"} :
          threads' = [threads EXCEPT ![t].frames = Popped(t), ![t].exc = e]
    /\ UNCHANGED <<wrapped, ran, otherVars>>

\* the fabric task that a function called is over: the function goes on, or the
\* exception that came out of the task leaves the function as well
FunctionResumes(t) ==
    /\ AtFunction(t, "calling")
    /\ threads' = [threads EXCEPT ![t].frames = IF threads[t].exc = "none"
                                                    THEN Moved(t, "run")
                                                ELSE Popped(t)]
    /\ UNCHANGED <<wrapped, ran, otherVars>>

\* the function called directly is over: the wrapper returns what it returned, or
\* lets its exception through
DirectEnds(t) ==
    /\ AtWrapper(t, "direct")
    /\ threads' = [threads EXCEPT ![t].frames = Popped(t)]
    /\ UNCHANGED <<wrapped, ran, otherVars>>

\* execute is over: its remote context is closed and box._execute returns or raises
ExecuteEnds(t) ==
    /\ AtWrapper(t, "executing")
    /\ threads' = [threads EXCEPT
                       ![t].frames = Moved(t, "finally"),
                       ![t].contexts = SubSeq(@, 1, Len(@) - 1)]
    /\ UNCHANGED <<wrapped, ran, otherVars>>

\* variant: wrapped = False as the last statement of the try block and not in a finally
\* clause: the flag is reset only when box._execute has returned
GuardResetOnReturnOnly(t) ==
    /\ AtWrapper(t, "finally")
    /\ wrapped' = IF threads[t].exc = "none" THEN FALSE ELSE wrapped
    /\ threads' = [threads EXCEPT ![t].frames = Popped(t)]
    /\ UNCHANGED <<ran, otherVars>>

\* finally: wrapped = False
GuardFinally(t) ==
    /\ AtWrapper(t, "finally")
    /\ wrapped' = FALSE
    /\ threads' = [threads EXCEPT ![t].frames = Popped(t)]
    /\ UNCHANGED <<ran, otherVars>>

GuardNext(t) ==
    \/ TaskCall(t)
    \/ TaskNested(t)
    \/ GuardTest(t)
    \/ GuardSet(t)
    \/ Execute(t)
    \/ FunctionBegins(t)
    \/ FunctionEnds(t)
    \/ FunctionResumes(t)
    \/ DirectEnds(t)
    \/ ExecuteEnds(t)
    \/ GuardFinally(t)

(***************************************************************************)
(* The provider moves a resource to another state on its own.              *)
(***************************************************************************)
\* the instances the Box can see change: the one it is bound to, the one it waits on
Watched ==
    (DOMAIN instances) \cap
    ({instance_id} \cup (IF resource.kind = "instance" THEN {resource.id} ELSE {}))

ProviderInstanceState ==
    \E i \in Watched, s \in InstanceStates :
        /\ s # instances[i].state
        /\ instances' = [instances EXCEPT ![i].state = s]
        /\ UNCHANGED <<volumes, images, boxVars, pc, resource, waitArgs, state, wpc,
                       sleeps, updates, raises, observed, readyVars,
                   volumeVars, requests, guardVars, terminating>>

ProviderHostName ==
    \E i \in Watched, d \in DnsNames :
        /\ d # instances[i].public_dns_name
        /\ instances' = [instances EXCEPT ![i].public_dns_name = d]
        /\ UNCHANGED <<volumes, images, boxVars, pc, resource, waitArgs, state, wpc,
                       sleeps, updates, raises, observed, readyVars,
                   volumeVars, requests, guardVars, terminating>>

\* the instance the Box is bound to comes up
ProviderBoots ==
    \E i \in Watched :
        /\ instances[i].state = "pending"
        /\ instances' = [instances EXCEPT ![i].state = "running"]
        /\ UNCHANGED <<volumes, images, boxVars, pc, resource, waitVars, sleeps, updates,
                       readyVars, volumeVars, requests, guardVars, terminating>>

\* the running instance the Box is bound to gets its public name
ProviderNames ==
    \E i \in Watched :
        /\ instances[i].state = "running"
        /\ instances[i].public_dns_name = ""
        /\ instances' = [instances EXCEPT ![i].public_dns_name = "ec2-a"]
        /\ UNCHANGED <<volumes, images, boxVars, pc, resource, waitVars, sleeps, updates,
                       readyVars, volumeVars, requests, guardVars, terminating>>

\* an instance whose termination was asked for begins to shut down
ProviderShutsDown ==
    \E i \in terminating :
        /\ instances[i].state \notin {"shutting-down", "terminated"}
        /\ instances' = [instances EXCEPT ![i].state = "shutting-down"]
        /\ UNCHANGED <<volumes, images, boxVars, pc, resource, waitVars, sleeps, updates,
                       readyVars, volumeVars, requests, guardVars, terminating>>

\* an instance whose termination was asked for and that shuts down is terminated
ProviderTerminated ==
    \E i \in terminating :
        /\ instances[i].state = "shutting-down"
        /\ instances' = [instances EXCEPT ![i].state = "terminated"]
        /\ UNCHANGED <<volumes, images, boxVars, pc, resource, waitVars, sleeps, updates,
                       readyVars, volumeVars, requests, guardVars, terminating>>

\* the instance that was asked to stop last begins to stop
ProviderStopping ==
    \E i \in Watched :
        /\ requests # <<>>
        /\ requests[Len(requests)] = "stop_instances"
        /\ instances[i].state = "running"
        /\ instances' = [instances EXCEPT ![i].state = "stopping"]
        /\ UNCHANGED <<volumes, images, boxVars, pc, resource, waitVars, sleeps, updates,
                       readyVars, volumeVars, requests, guardVars, terminating>>

\* an instance that stops is stopped, and gives its public name up
ProviderStopped ==
    \E i \in Watched :
        /\ instances[i].state = "stopping"
        /\ instances' = [instances EXCEPT ![i].state = "stopped",
                                          ![i].public_dns_name = ""]
        /\ UNCHANGED <<volumes, images, boxVars, pc, resource, waitVars, sleeps, updates,
                       readyVars, volumeVars, requests, guardVars, terminating>>

\* the instance that was asked to start last begins to start
ProviderStarts ==
    \E i \in Watched :
        /\ requests # <<>>
        /\ requests[Len(requests)] = "start_instances"
        /\ instances[i].state = "stopped"
        /\ instances' = [instances EXCEPT ![i].state = "pending"]
        /\ UNCHANGED <<volumes, images, boxVars, pc, resource, waitVars, sleeps, updates,
                       readyVars, volumeVars, requests, guardVars, terminating>>

\* a pending instance fails to launch: it is terminated
ProviderFails ==
    \E i \in Watched :
        /\ instances[i].state = "pending"
        /\ instances' = [instances EXCEPT ![i].state = "terminated"]
        /\ UNCHANGED <<volumes, images, boxVars, pc, resource, waitVars, sleeps, updates,
                       readyVars, volumeVars, requests, guardVars, terminating>>

\* the running instance the Box is bound to gets a public name it did not have before
ProviderNamesAnew ==
    \E i \in Watched :
        /\ instances[i].state = "running"
        /\ instances[i].public_dns_name = ""
        /\ instances' = [instances EXCEPT ![i].public_dns_name = "ec2-b"]
        /\ UNCHANGED <<volumes, images, boxVars, pc, resource, waitVars, sleeps, updates,
                       readyVars, volumeVars, requests, guardVars, terminating>>

ProviderVolumeStatus ==
    \E v \in DOMAIN volumes, s \in VolumeStatuses :
        /\ s # volumes[v].status
        /\ volumes' = [volumes EXCEPT ![v].status = s]
        /\ UNCHANGED <<instances, images, boxVars, pc, resource, waitArgs, state, wpc,
                       sleeps, updates, raises, observed, readyVars,
                   volumeVars, requests, guardVars, terminating>>

\* a volume that was being created becomes available
ProviderVolumeCreated ==
    \E v \in DOMAIN volumes :
        /\ volumes[v].status = "creating"
        /\ volumes' = [volumes EXCEPT ![v].status = "available"]
        /\ UNCHANGED <<instances, images, boxVars, pc, resource, waitVars, sleeps,
                       updates, readyVars, volumeVars, requests, guardVars, terminating>>

\* an available volume is attached to some instance by another party
ProviderVolumeTaken ==
    \E v \in DOMAIN volumes :
        /\ volumes[v].status = "available"
        /\ volumes' = [volumes EXCEPT ![v].status = "in-use"]
        /\ UNCHANGED <<instances, images, boxVars, pc, resource, waitVars, sleeps,
                       updates, readyVars, volumeVars, requests, guardVars, terminating>>

\* the available volume that the Box waits on is attached and in use
ProviderVolumeAttaches ==
    /\ resource.kind = "volume"
    /\ resource.id \in DOMAIN volumes
    /\ volumes[resource.id].status = "available"
    /\ volumes' = [volumes EXCEPT ![resource.id].status = "in-use"]
    /\ UNCHANGED <<instances, images, boxVars, pc, resource, waitVars, sleeps,
                   updates, readyVars, volumeVars, requests, guardVars, terminating>>

ProviderImageState ==
    \E m \in DOMAIN images, s \in ImageStates :
        /\ s # images[m].state
        /\ images' = [images EXCEPT ![m].state = s]
        /\ UNCHANGED <<instances, volumes, boxVars, pc, resource, waitArgs, state, wpc,
                       sleeps, updates, raises, observed, readyVars,
                   volumeVars, requests, guardVars, terminating>>

(***************************************************************************)
(* SpecWait: __wait_transition called once, on any resource, with any of   *)
(* the from_states/to_state pairs the Box operations pass.                 *)
(***************************************************************************)
\* the calls of __wait_transition in box.py: lines 134, 153, 245 (through __wait_ready),
\* 229, 269, 216, 313 and 324
WaitCalls ==
    { [kind |-> "instance", getter |-> "state", from |-> {"pending"}, to |-> "running"],
      [kind |-> "instance", getter |-> "state", from |-> {"stopped", "pending"},
       to |-> "running"],
      [kind |-> "instance", getter |-> "state", from |-> {"running", "stopping"},
       to |-> "stopped"],
      [kind |-> "instance", getter |-> "state",
       from |-> {"running", "shutting-down", "stopped"}, to |-> "terminated"],
      [kind |-> "image", getter |-> "state", from |-> {"pending"}, to |-> "available"],
      [kind |-> "volume", getter |-> "status", from |-> {"creating"}, to |-> "available"],
      [kind |-> "volume", getter |-> "status", from |-> {"available"}, to |-> "in-use"] }

InitWait ==
    \E c \in WaitCalls :
        /\ \/ /\ c.kind = "instance"
              /\ \E s \in InstanceStates :
                    instances = (1 :> [state |-> s, name |-> "", launch_time |-> 1,
                                       public_dns_name |-> ""])
              /\ volumes = <<>>
              /\ images = <<>>
              /\ \E s \in InstanceStates :
                    resource = [kind |-> "instance", id |-> 1, state |-> s, name |-> "",
                                launch_time |-> 1, public_dns_name |-> ""]
           \/ /\ c.kind = "volume"
              /\ instances = <<>>
              /\ \E s \in VolumeStatuses :
                    volumes = (1 :> [status |-> s, zone |-> "zoneA", name |-> "",
                                     attach |-> NoId])
              /\ images = <<>>
              /\ \E s \in VolumeStatuses :
                    resource = [kind |-> "volume", id |-> 1, status |-> s, zone |-> "zoneA",
                                name |-> "", attach |-> NoId]
           \/ /\ c.kind = "image"
              /\ instances = <<>>
              /\ volumes = <<>>
              /\ \E s \in ImageStates : images = (1 :> [state |-> s])
              /\ \E s \in ImageStates : resource = [kind |-> "image", id |-> 1, state |-> s]
        /\ from_states = c.from
        /\ to_state = c.to
        /\ state_getter = c.getter
    /\ instance_id = NoId
    /\ host_name = None
    /\ pc = "wait_transition"
    /\ state = None
    /\ wpc = "entry"
    /\ sleeps = 0
    /\ updates = 0
    /\ raises = 0
    /\ observed = <<>>
    /\ ReadyIdle
    /\ VolumeIdle
    /\ GuardIdle
    /\ terminating = {}

NextWait ==
    \/ WaitNext
    \/ ProviderInstanceState
    \/ ProviderVolumeStatus
    \/ ProviderImageState

SpecWait == InitWait /\ [][NextWait]_vars

\* C1: when the first state __wait_transition reads is already to_state, it returns at
\* once: it is about to return or has returned, it never raises, and it has made no
\* sleep, no update() and no second read of the state.
C1_AlreadyThereReturnsAtOnce ==
    (observed # <<>> /\ observed[1] = to_state) =>
        /\ wpc \in {"loop", "returned"}
        /\ state = to_state
        /\ state \notin from_states
        /\ sleeps = 0
        /\ updates = 0
        /\ raises = 0
        /\ Len(observed) = 1

C1_Witness ==
    /\ wpc = "returned"
    /\ observed = <<to_state>>
    /\ sleeps = 0

\* C2: __wait_transition raises exactly once, at the first state it reads that is
\* neither in from_states nor to_state, and reads nothing after it; it returns only
\* with to_state as the last state read.
C2_RaisesOnFirstUnexpected ==
    LET n == Len(observed)
        Unexpected(s) == s \notin from_states /\ s # to_state
    IN  /\ raises = (IF wpc = "raised" THEN 1 ELSE 0)
        /\ updates = (IF n = 0 THEN 0 ELSE n - 1)
        /\ \A i \in 1..n : Unexpected(observed[i]) => (i = n /\ wpc \in {"loop", "raised"})
        /\ wpc = "raised" => (n >= 1 /\ Unexpected(observed[n]))
        /\ wpc = "returned" => (n >= 1 /\ observed[n] = to_state /\ state = to_state)

C2_Witness ==
    /\ wpc = "raised"
    /\ Len(observed) >= 2
    /\ observed[1] \in from_states

(***************************************************************************)
(* SpecReady: __wait_ready called once on the instance of a bound Box,     *)
(* with the from_states of create and adopt or those of start.             *)
(***************************************************************************)
InitReady ==
    /\ \E s \in InstanceStates, d \in DnsNames :
          instances = (1 :> [state |-> s, name |-> "", launch_time |-> 1,
                             public_dns_name |-> d])
    /\ volumes = <<>>
    /\ images = <<>>
    /\ instance_id = 1
    /\ host_name \in {None, "ec2-a"}
    /\ pc = "wait_ready"
    /\ resource = Mirror("instance", 1)
    /\ from_states \in {{"pending"}, {"stopped", "pending"}}
    /\ to_state = "running"
    /\ state_getter = "state"
    /\ state = None
    /\ wpc = "entry"
    /\ sleeps = 0
    /\ updates = 0
    /\ raises = 0
    /\ observed = <<>>
    /\ rpc = "transition"
    /\ exc = "none"
    /\ pending = "none"
    /\ open_sockets = 0
    /\ client = "none"
    /\ streams_open = FALSE
    /\ session_host = None
    /\ line = None
    /\ port_attempts = 0
    /\ ssh_attempts = 0
    /\ VolumeIdle
    /\ GuardIdle
    /\ terminating = {}

NextReady ==
    \/ WaitNext
    \/ ReadyNext
    \/ ProviderInstanceState
    \/ ProviderHostName

SpecReady == InitReady /\ [][NextReady]_vars

\* C3: __wait_ready has returned only if, in its last attempt, 'echo hi' answered exactly
\* 'hi' and a newline over a session to the host name the Box holds, which is the
\* non-empty public name read from the instance.
C3_ReadyOnlyAfterRoundTrip ==
    rpc = "done" =>
        /\ line = "hi\n"
        /\ ssh_attempts >= 1
        /\ port_attempts >= 1
        /\ session_host = host_name
        /\ host_name = resource.public_dns_name
        /\ host_name \notin {None, ""}
        /\ exc = "none"

C3_Witness ==
    /\ rpc = "done"
    /\ session_host = "ec2-b"
    /\ sleeps >= 1

VolumeTags == {absolute_name(n) : n \in VolumeNames} \cup
              {absolute_name(absolute_name(n)) : n \in VolumeNames}

InitVolume ==
    /\ instances = <<>>
    /\ \E k \in 0..MaxVolumes :
          volumes \in [1..k -> [status : VolumeStatuses, zone : Zones, name : VolumeTags,
                                attach : {NoId}]]
    /\ images = <<>>
    /\ instance_id = NoId
    /\ host_name = None
    /\ pc = "volume"
    /\ resource = NoResource
    /\ from_states = {}
    /\ to_state = None
    /\ state_getter = "state"
    /\ state = None
    /\ wpc = "idle"
    /\ sleeps = 0
    /\ updates = 0
    /\ raises = 0
    /\ observed = <<>>
    /\ ReadyIdle
    /\ VolumeIdle
    /\ GuardIdle
    /\ terminating = {}

NextVolume ==
    \/ VolumeNext
    \/ WaitNext
    \/ ProviderVolumeCreated
    \/ ProviderVolumeTaken

SpecVolume == InitVolume /\ [][NextVolume]_vars

\* the provider held no volume tagged with the name n, made absolute once or twice
NoVolumeNamed(n) ==
    \A v \in DOMAIN volumes0 :
        volumes0[v].name \notin {absolute_name(n), absolute_name(absolute_name(n))}

\* the volumes created since the first call
CreatedVolumes == DOMAIN volumes \ DOMAIN volumes0

\* C5: two calls of get_or_create_volume in a row with the same name, from a provider
\* with no volume of that name and with every created volume available, return the same
\* volume id, not None, and make one create_volume request in all.
C5_TwiceSameVolumeOneCreate ==
    ( /\ Len(results) = 2
      /\ vpc = "idle"
      /\ results[1].arg = results[2].arg
      /\ NoVolumeNamed(results[1].arg)
      /\ \A v \in CreatedVolumes : volumes[v].status = "available" ) =>
        /\ results[1].outcome = "returned"
        /\ results[2].outcome = "returned"
        /\ results[1].value # NoId
        /\ results[1].value = results[2].value
        /\ create_volume_calls = 1

\* C6: when no volume carries the name, a call of get_or_create_volume that returns
\* returns a volume, not None: the one it created, available, in the environment's zone
\* and tagged with the absolute name.
C6_CreatedVolumeReturned ==
    ( /\ Len(results) >= 1
      /\ results[1].outcome = "returned"
      /\ NoVolumeNamed(results[1].arg) ) =>
        /\ results[1].value # NoId
        /\ results[1].value \in CreatedVolumes
        /\ results[1].status = "available"
        /\ volumes[results[1].value].zone = availability_zone
        /\ volumes[results[1].value].name = absolute_name(results[1].arg)

\* C7: when the provider's one volume is tagged with the absolute name and is in another
\* zone or not available (and stays so), get_or_create_volume raises, makes no
\* create_volume request and leaves the volume's tag and zone alone.
C7_MisplacedVolumeRaises ==
    ( /\ Len(results) = 1
      /\ DOMAIN volumes0 = {1}
      /\ volumes0[1].name = absolute_name(results[1].arg)
      /\ \/ volumes0[1].zone # availability_zone
         \/ volumes0[1].status # "available" /\ volumes[1].status = volumes0[1].status ) =>
        /\ results[1].outcome \in {"running", "raised"}
        /\ create_volume_calls = 0
        /\ volumes[1].name = volumes0[1].name
        /\ volumes[1].zone = volumes0[1].zone

(***************************************************************************)
(* SpecBox: up to MaxCalls calls of create and adopt on one Box, against a *)
(* provider that holds up to MaxInstances instances.                       *)
(***************************************************************************)
InitBox ==
    /\ \E k \in 0..MaxInstances :
          instances \in [1..k -> [state : {"pending", "running", "stopped", "terminated"},
                                  name : {absolute_role, absolute_name(other_role)},
                                  launch_time : 1..MaxTime,
                                  public_dns_name : {""}]]
    /\ volumes = <<>>
    /\ images = <<>>
    /\ instance_id = NoId
    /\ host_name = None
    /\ pc = "idle"
    /\ resource = NoResource
    /\ from_states = {}
    /\ to_state = None
    /\ state_getter = "state"
    /\ state = None
    /\ wpc = "idle"
    /\ sleeps = 0
    /\ updates = 0
    /\ raises = 0
    /\ observed = <<>>
    /\ ReadyIdle
    /\ VolumeIdle
    /\ GuardIdle
    /\ terminating = {}

NextBox ==
    \/ BoxNext
    \/ WaitNext
    \/ ReadyNext
    \/ ProviderBoots
    \/ ProviderNames

SpecBox == InitBox /\ [][NextBox]_vars

(***************************************************************************)
(* SpecAdopt: up to MaxCalls calls on one Box, of which those made on the  *)
(* unbound Box are adopt( ordinal, wait_ready=False ).                     *)
(***************************************************************************)
NextAdopt ==
    \/ AdoptAtOnce
    \/ AdoptBound
    \/ CreateBound

SpecAdopt == InitBox /\ [][NextAdopt]_vars

\* the instances adopt can bind, as the provider held them when the call was made: those
\* that carry the role's absolute name and are not terminated
Eligible(before) ==
    {i \in DOMAIN before : before[i].name = absolute_role /\ before[i].state # "terminated"}

\* no two of the instances in S were launched at the same time
DistinctLaunchTimes(before, S) ==
    \A i, j \in S : i # j => before[i].launch_time # before[j].launch_time

\* how many of the instances in S were launched before instance i
Rank(before, S, i) ==
    Cardinality({j \in S : before[j].launch_time < before[i].launch_time})

\* call number c was made on an unbound Box and no later call has been made on an
\* unbound Box: what the Box is bound to now is what call number c bound it to
LastUnbound(c) ==
    /\ results[c].bound = NoId
    /\ c < Len(results) => results[c + 1].bound # NoId

\* C8: when the non-terminated instances that carry the role's absolute name were
\* launched at pairwise distinct times and there are n of them, adopt(ordinal=k) with
\* 0 <= k < n on an unbound Box binds the Box to the one of them that exactly k of them
\* precede in launch time, in whatever order the provider lists them; and whatever the
\* ordinal, what adopt binds is one of them, so never a terminated instance.
C8_OrdinalBindsByLaunchTime ==
    \A c \in 1..Len(results) :
        (results[c].op = "adopt" /\ LastUnbound(c)) =>
            LET before == results[c].before
                S == Eligible(before)
                ordinal == results[c].arg.ordinal
            IN  /\ instance_id # NoId => instance_id \in S
                /\ (/\ DistinctLaunchTimes(before, S)
                    /\ ordinal # <<>>
                    /\ 0 <= ordinal[1]
                    /\ ordinal[1] < Cardinality(S))
                       => /\ instance_id \in S
                          /\ Rank(before, S, instance_id) = ordinal[1]

\* adopt(ordinal=1) has bound the later launched of two eligible instances, which is
\* the one with the smaller id, while an instance of another role is left alone
C8_Witness ==
    /\ Len(results) = 1
    /\ results[1].op = "adopt"
    /\ results[1].arg.ordinal = <<1>>
    /\ Eligible(results[1].before) = {1, 2}
    /\ results[1].before[1].launch_time > results[1].before[2].launch_time
    /\ instance_id = 1

\* C9: adopt on an unbound Box raises and leaves instance_id and host_name unset when
\* no non-terminated instance carries the role's absolute name, and when no ordinal
\* is given and two or more such instances exist.
C9_NothingOrAmbiguousRaises ==
    \A c \in 1..Len(results) :
        LET S == Eligible(results[c].before)
        IN  (/\ results[c].op = "adopt"
             /\ results[c].bound = NoId
             /\ \/ S = {}
                \/ results[c].arg.ordinal = <<>> /\ Cardinality(S) >= 2)
                => /\ results[c].outcome = "raised"
                   /\ results[c].value \in {"No instance performing role",
                                            "More than one instance"}
                   /\ c = Len(results) => instance_id = NoId /\ host_name = None
                   /\ c < Len(results) => results[c + 1].bound = NoId

\* adopt without an ordinal has met two eligible instances, has raised and has bound
\* nothing
C9_Witness ==
    /\ Len(results) = 1
    /\ results[1].op = "adopt"
    /\ results[1].arg.ordinal = <<>>
    /\ Cardinality(Eligible(results[1].before)) = 2
    /\ results[1].outcome = "raised"
    /\ results[1].value = "More than one instance"
    /\ instance_id = NoId
    /\ host_name = None

\* C10 as stated: create and adopt, called on a bound Box, both raise, make no provider
\* call and leave instance_id unchanged.
C10_BoundCreateAndAdoptRaise ==
    LET c == Len(results)
    IN  (c > 0 /\ results[c].bound # NoId) =>
            /\ results[c].outcome = "raised"
            /\ requests = <<>>
            /\ instance_id = results[c].bound

\* C10: called on a bound Box, neither create nor adopt makes a provider call or
\* changes instance_id; create raises RuntimeError, adopt returns normally.
C10_BoundCreateRaisesAdoptReturns ==
    LET c == Len(results)
    IN  (c > 0 /\ results[c].bound # NoId) =>
            /\ requests = <<>>
            /\ instance_id = results[c].bound
            /\ results[c].op = "create"
                   => results[c].outcome = "raised" /\ results[c].value = "RuntimeError"
            /\ results[c].op = "adopt" => results[c].outcome = "returned"

\* adopt has been called on a Box that an earlier create had bound, and has returned
C10_Witness ==
    /\ Len(results) = 2
    /\ results[1].op = "create"
    /\ results[2].op = "adopt"
    /\ results[2].bound # NoId
    /\ results[2].outcome = "returned"
    /\ instance_id = results[2].bound
    /\ requests = <<>>

(***************************************************************************)
(* SpecOps: up to MaxCalls calls on one Box whose role one instance        *)
(* performs: adopt( ordinal, wait_ready=False ), terminate, create_image,  *)
(* attach_volume, and the decorated operations on the unbound Box.         *)
(***************************************************************************)
\* an instance other than the Box's
other_instance == 2

InitOps ==
    /\ \E s \in InstanceStates :
          instances = (1 :> [state |-> s, name |-> absolute_role, launch_time |-> 1,
                             public_dns_name |-> ""])
    /\ \/ volumes = <<>>
       \/ \E st \in VolumeStatuses, a \in {NoId, 1, other_instance} :
             /\ (a # NoId) => (st = "in-use")
             /\ volumes = (1 :> [status |-> st, zone |-> availability_zone,
                                 name |-> absolute_name("data"), attach |-> a])
    /\ images = <<>>
    /\ instance_id = NoId
    /\ host_name = None
    /\ pc = "idle"
    /\ resource = NoResource
    /\ from_states = {}
    /\ to_state = None
    /\ state_getter = "state"
    /\ state = None
    /\ wpc = "idle"
    /\ sleeps = 0
    /\ updates = 0
    /\ raises = 0
    /\ observed = <<>>
    /\ ReadyIdle
    /\ VolumeIdle
    /\ GuardIdle
    /\ terminating = {}

NextOps ==
    \/ AdoptAtOnce
    \/ OpsNext
    \/ WaitNext
    \/ ProviderShutsDown
    \/ ProviderTerminated
    \/ ProviderImageState
    \/ ProviderVolumeTaken

SpecOps == InitOps /\ [][NextOps]_vars

\* the operations on the instance other than create and adopt
InstanceOps == NeedsInstanceOps \cup {"terminate"}

\* C11 as stated: start, stop, reboot, terminate, create_image and attach_volume, called
\* on a Box whose instance_id is unset, all raise and make no request to the provider.
C11_UnboundOpsAllRaise ==
    LET c == Len(results)
    IN  (c > 0 /\ results[c].op \in InstanceOps /\ results[c].bound = NoId) =>
            /\ results[c].outcome = "raised"
            /\ requests = <<>>

\* C11: called on a Box whose instance_id is unset, none of start, stop, reboot,
\* terminate, create_image and attach_volume makes a request to the provider or binds
\* the Box; all but terminate raise RuntimeError, terminate returns normally.
C11_UnboundOpsRaiseTerminateReturns ==
    LET c == Len(results)
    IN  (c > 0 /\ results[c].op \in InstanceOps /\ results[c].bound = NoId) =>
            /\ requests = <<>>
            /\ instance_id = NoId
            /\ terminating = {}
            /\ results[c].op \in NeedsInstanceOps
                   => results[c].outcome = "raised" /\ results[c].value = "RuntimeError"
            /\ results[c].op = "terminate" => results[c].outcome = "returned"

\* start has raised on the unbound Box, and after it terminate( wait=True ) has returned
\* on the still unbound Box, while the role's instance runs
C11_Witness ==
    /\ Len(results) = 2
    /\ results[1].op = "start"
    /\ results[1].outcome = "raised"
    /\ results[2].op = "terminate"
    /\ results[2].arg.wait
    /\ results[2].bound = NoId
    /\ results[2].outcome = "returned"
    /\ requests = <<>>
    /\ instances[1].state = "running"

\* C12: terminate( wait=True ) on a bound Box whose instance is in any state but
\* terminated asks the provider to terminate it, does not raise, and returns only after
\* it has read the state terminated, the provider moving the instance only through
\* shutting-down to terminated once it was asked to.
C12_TerminateWaitsForTerminated ==
    \A c \in 1..Len(results) :
        (/\ results[c].op = "terminate"
         /\ results[c].arg.wait
         /\ results[c].bound # NoId
         /\ results[c].before[results[c].bound].state # "terminated")
            => /\ results[c].bound \in terminating
               /\ results[c].outcome # "raised"
               /\ results[c].outcome = "returned"
                      => /\ results[c].seen # <<>>
                         /\ results[c].seen[Len(results[c].seen)] = "terminated"

(***************************************************************************)
(* SpecGuard: one thread calls fabric tasks on its Box, up to MaxTasks     *)
(* times, the tasks calling further tasks up to MaxDepth deep.             *)
(* SpecThreads: two threads do, each on a Box of its own.                  *)
(***************************************************************************)
InitGuard ==
    /\ instances = <<>>
    /\ volumes = <<>>
    /\ images = <<>>
    /\ instance_id = NoId
    /\ host_name = None
    /\ pc = "idle"
    /\ resource = NoResource
    /\ from_states = {}
    /\ to_state = None
    /\ state_getter = "state"
    /\ state = None
    /\ wpc = "idle"
    /\ sleeps = 0
    /\ updates = 0
    /\ raises = 0
    /\ observed = <<>>
    /\ ReadyIdle
    /\ VolumeIdle
    /\ terminating = {}
    /\ wrapped = FALSE
    /\ ran = {}
    /\ \E bound \in [Threads -> BOOLEAN] :
          threads = [t \in Threads |->
                        [box |-> IF bound[t]
                                     THEN [instance_id |-> t,
                                           host_name |-> IF t = 1 THEN "ec2-a" ELSE "ec2-b"]
                                 ELSE [instance_id |-> NoId, host_name |-> None],
                         frames |-> <<>>, contexts |-> <<>>, exc |-> "none", calls |-> 0]]

NextGuard == GuardNext(1)

SpecGuard == InitGuard /\ [][NextGuard]_vars

NextThreads == \E t \in Threads : GuardNext(t)

SpecThreads == InitGuard /\ [][NextThreads]_vars

\* C13 as stated: a fabric task called while another fabric task is active in the same
\* call chain fails; its function runs neither directly nor in a second remote context,
\* so the only functions that ever begin are those called from outside any fabric task.
C13_NestedTaskNeverRuns ==
    \A r \in ran : r.thread = 1 => r.outermost

\* C13: a fabric task called while another fabric task is active in the same call chain
\* raises no error of its own and opens no second remote context: wrapper finds wrapped
\* set and calls the function directly, inside the one remote context that the
\* outermost task opened for the Box's host.
C13_NestedTaskRunsDirectly ==
    LET frames == threads[1].frames
    IN  /\ Len(threads[1].contexts) <= 1
        /\ \A r \in ran : r.thread = 1 => r.contexts = <<threads[1].box.host_name>>
        /\ \A i \in 3..Len(frames) :
              frames[i].fn = "wrapper" =>
                  /\ frames[i].pc \in {"test", "direct"}
                  /\ wrapped

\* a fabric task called from within a fabric task has begun to run its function, in the
\* remote context of the outer task
C13_Witness ==
    /\ Len(threads[1].frames) = 4
    /\ threads[1].frames[3] = [fn |-> "wrapper", pc |-> "direct"]
    /\ threads[1].frames[4] = [fn |-> "function", pc |-> "run"]
    /\ threads[1].contexts = <<"ec2-a">>
    /\ [thread |-> 1, contexts |-> <<"ec2-a">>, outermost |-> FALSE] \in ran

\* C14: when two threads run fabric tasks, each on its own Box, every function of a
\* fabric task runs in exactly one remote context, that of its own thread's Box.
C14_ThreadsKeepTheirContexts ==
    \A r \in ran : r.contexts = <<threads[r.thread].box.host_name>>

\* the calls of create_image made on the bound Box while its instance was stopped
CreateImageCallsOnStopped ==
    {c \in 1..Len(results) : /\ results[c].op = "create_image"
                             /\ results[c].bound # NoId
                             /\ results[c].before[results[c].bound].state = "stopped"}

\* the last element of a sequence that is not empty
Last(seq) == seq[Len(seq)]

\* C15: create_image on a bound Box whose instance is in any state but stopped raises at
\* once and makes no create_image request: the provider holds one image for each
\* create_image called on a stopped instance and no other.
C15_CreateImageNeedsStopped ==
    /\ Cardinality(DOMAIN images) = Cardinality(CreateImageCallsOnStopped)
    /\ \A c \in 1..Len(results) :
          (/\ results[c].op = "create_image"
           /\ results[c].bound # NoId
           /\ results[c].before[results[c].bound].state # "stopped")
              => /\ results[c].outcome = "raised"
                 /\ results[c].value = "RuntimeError"
                 /\ c = Len(results) => requests = <<"get_all_instances">>

\* create_image has raised on a Box bound to a running instance, and there is no image
C15_Witness ==
    /\ Len(results) = 2
    /\ results[2].op = "create_image"
    /\ results[2].bound = 1
    /\ results[2].before[1].state = "running"
    /\ results[2].outcome = "raised"
    /\ images = <<>>
    /\ requests = <<"get_all_instances">>

\* C16: in create_image, after the create_image request, every ResponseError of get_image
\* but the last had the code InvalidAMIID.NotFound; one with another code ends the call,
\* which raises it; create_image returns the image id only after it has read the image's
\* state available, and raises if the last state it read is neither pending nor
\* available.
C16_OnlyNotFoundIsRetried ==
    \A c \in 1..Len(results) :
        (results[c].op = "create_image" /\ "errors" \in DOMAIN results[c]) =>
            LET r == results[c]
                waited == "seen" \in DOMAIN r
            IN  /\ \A k \in 1..(Len(r.errors) - 1) : r.errors[k] = "InvalidAMIID.NotFound"
                /\ (r.errors # <<>> /\ Last(r.errors) # "InvalidAMIID.NotFound")
                       => r.outcome = "raised" /\ r.value = Last(r.errors) /\ ~waited
                /\ r.outcome = "returned"
                       => /\ r.value \in DOMAIN images
                          /\ waited /\ Last(r.seen) = "available"
                          /\ \A k \in 1..Len(r.errors) : r.errors[k] = "InvalidAMIID.NotFound"
                /\ waited => (r.outcome = "raised" <=> Last(r.seen) # "available")
                /\ waited => Last(r.seen) # "pending"

\* create_image has returned the image id after get_image had raised
\* InvalidAMIID.NotFound as often as the bound allows, and after the image had been
\* read as pending and then as available
C16_Witness ==
    /\ Len(results) = 2
    /\ results[2].op = "create_image"
    /\ results[2].outcome = "returned"
    /\ results[2].value = 1
    /\ Len(results[2].errors) = MaxAttempts
    /\ results[2].seen = <<"pending", "available">>

\* C17: once the wait of attach_volume is over, attach_volume returns normally only if
\* the volume object says in-use and attached to the Box's instance; it raises whenever
\* the volume object says in-use and attached to another instance or to none.
C17_AttachedToThisInstanceOrRaises ==
    \A c \in 1..Len(results) :
        (results[c].op = "attach_volume" /\ "seen" \in DOMAIN results[c]) =>
            LET r == results[c]
            IN  /\ r.outcome \in {"returned", "raised"}
                /\ r.outcome = "returned" <=> (Last(r.seen) = "in-use" /\ r.value = r.bound)

\* attach_volume has waited until the volume was in use and has raised, the volume
\* being attached to another instance
C17_Witness ==
    /\ Len(results) = 2
    /\ results[2].op = "attach_volume"
    /\ results[2].outcome = "raised"
    /\ "seen" \in DOMAIN results[2]
    /\ Last(results[2].seen) = "in-use"
    /\ results[2].value = other_instance
    /\ results[2].bound = 1

\* the positions of __wait_ssh_working between client = SSHClient( ) and the end of its
\* try statement
SshStages == {"ssh_connect", "ssh_exec", "ssh_readline", "ssh_streams_finally",
              "ssh_except", "ssh_finally"}

\* a KeyboardInterrupt raised in __wait_ssh_working is on its way out
Interrupted == rpc \in SshStages /\ pending = "KeyboardInterrupt"

\* C18: a KeyboardInterrupt raised by client.connect, exec_command or readline in
\* __wait_ssh_working stays pending until it leaves __wait_ready: no step drops it, no
\* further attempt and no sleep follows it, and when it leaves, the streams and the
\* client of that attempt are closed; once __wait_ready has raised it does nothing more.
C18_InterruptPropagatesAtOnce ==
    /\ [](Interrupted => rpc \in {"ssh_streams_finally", "ssh_except", "ssh_finally"})
    /\ []((rpc = "raised" /\ exc = "KeyboardInterrupt" /\ ssh_attempts >= 1)
               => client = "closed" /\ ~streams_open)
    /\ [][Interrupted =>
              /\ ssh_attempts' = ssh_attempts
              /\ port_attempts' = port_attempts
              /\ sleeps' = sleeps
              /\ \/ Interrupted'
                 \/ /\ rpc' = "raised"
                    /\ exc' = "KeyboardInterrupt"
                    /\ client' = "closed"
                    /\ ~streams_open']_vars
    /\ [][rpc = "raised" => UNCHANGED <<readyVars, sleeps, host_name>>]_vars

\* __wait_ready has raised KeyboardInterrupt out of its second session, the first one
\* having failed with an exception that was logged and retried; the client is closed
C18_Witness ==
    /\ rpc = "raised"
    /\ exc = "KeyboardInterrupt"
    /\ ssh_attempts = 2
    /\ client = "closed"
    /\ ~streams_open

\* the positions of __wait_ssh_port_open
PortStages == {"port", "port_connect", "port_finally"}

\* the positions of __wait_ssh_working
WorkingStages == SshStages \cup {"ssh", "ssh_sleep"}

\* C19: __wait_ready goes through its stages in order. Past the first stage the last
\* state read from the instance is running; from the port stage on the Box holds the
\* non-empty public name read from the instance; the port stage is entered only from
\* the host name stage, by storing the name; the ssh stage is entered only from the port
\* stage, when connect has returned; no socket is made before the name is stored and no
\* SSHClient before a connect has returned.
C19_StagesInOrder ==
    /\ [](rpc \notin {"transition", "raised"} => Last(observed) = "running")
    /\ [](rpc \in PortStages \cup WorkingStages \cup {"done"}
             => /\ host_name \notin {None, ""}
                /\ host_name = resource.public_dns_name)
    /\ [](port_attempts >= 1 => rpc \notin {"transition", "hostname"})
    /\ []((ssh_attempts >= 1 \/ client # "none")
             => port_attempts >= 1 /\ rpc \notin {"transition", "hostname"} \cup PortStages)
    /\ [][(rpc \notin PortStages /\ rpc' \in PortStages)
             => rpc = "hostname" /\ host_name' = resource.public_dns_name]_vars
    /\ [][(rpc \notin WorkingStages /\ rpc' \in WorkingStages)
             => /\ rpc = "port_finally" /\ pending = "return"
                /\ rpc' = "ssh" /\ open_sockets' = 0]_vars
    /\ [][(rpc \in WorkingStages => (rpc' \in WorkingStages \cup {"done", "raised"}))]_vars
    /\ [][(rpc \in PortStages => (rpc' \in PortStages \cup {"ssh", "raised"}))]_vars
    /\ [][(rpc = "hostname" => (rpc' \in {"hostname", "port"}))]_vars

\* __wait_ready has returned after it waited for the state running, then for the host
\* name, then for the port, which was refused once, and then made the round trip
C19_Witness ==
    /\ rpc = "done"
    /\ observed = <<"pending", "running">>
    /\ updates = 2
    /\ host_name = "ec2-b"
    /\ port_attempts = 2
    /\ ssh_attempts = 1

\* the sockets and SSH clients that __wait_ready has made and not closed
OpenResources == open_sockets + (IF client \in {"created", "connected"} THEN 1 ELSE 0)

\* C20: __wait_ready never has more than one socket or SSH client open; none is open,
\* and no stream of a session, when an attempt begins, during the sleep between two
\* sessions, and when __wait_ready has returned or raised.
C20_NothingLeftOpen ==
    /\ OpenResources <= 1
    /\ streams_open => client = "connected"
    /\ rpc \in {"port", "ssh", "ssh_sleep", "done", "raised"}
          => OpenResources = 0 /\ ~streams_open

\* __wait_ready has raised RuntimeError after two attempts at the port and two sessions,
\* and nothing is open
C20_Witness ==
    /\ rpc = "raised"
    /\ exc = "RuntimeError"
    /\ port_attempts = 2
    /\ ssh_attempts = 2
    /\ OpenResources = 0

(***************************************************************************)
(* SpecLife: up to MaxCalls calls of create, adopt, stop, start, reboot    *)
(* and terminate on one Box whose role one instance performs, against a    *)
(* provider that carries the requests out and may fail to launch. The Box  *)
(* is unbound at first, or bound to the instance by an earlier             *)
(* adopt( wait_ready=False ).                                              *)
(* provider that carries the requests out and may fail to launch.          *)
(***************************************************************************)
InitLife ==
    /\ \E s \in InstanceStates, d \in {"", "ec2-a"} :
          /\ (d # "") => (s = "running")
          /\ instances = (1 :> [state |-> s, name |-> absolute_role, launch_time |-> 1,
                                public_dns_name |-> d])
    /\ volumes = <<>>
    /\ images = <<>>
    /\ instance_id \in {NoId, 1}
    /\ host_name = None
    /\ pc = "idle"
    /\ resource = NoResource
    /\ from_states = {}
    /\ to_state = None
    /\ state_getter = "state"
    /\ state = None
    /\ wpc = "idle"
    /\ sleeps = 0
    /\ updates = 0
    /\ raises = 0
    /\ observed = <<>>
    /\ ReadyIdle
    /\ VolumeIdle
    /\ GuardIdle
    /\ terminating = {}

NextLife ==
    \/ BoxNext
    \/ LifeNext
    \/ Terminate
    \/ TerminateReturns
    \/ TerminateRaises
    \/ WaitNext
    \/ ReadyNext
    \/ ProviderBoots
    \/ ProviderNames
    \/ ProviderNamesAnew
    \/ ProviderFails
    \/ ProviderStopping
    \/ ProviderStopped
    \/ ProviderStarts
    \/ ProviderShutsDown
    \/ ProviderTerminated

SpecLife == InitLife /\ [][NextLife]_vars

\* the id of the instance that the create of call number c launched
Launched(c) == Cardinality(DOMAIN results[c].before) + 1

\* C21: a create on an unbound Box launches one instance. When it has returned, the Box
\* is bound to that instance, the instance carries the Name tag absolute_role, the
\* states read from it were pending, one or more times, and then running, and the
\* public_dns_name read from it last is not empty and is the Box's host_name; when the
\* state read last is neither pending nor running, create has raised.
C21_CreateBindsTheLaunchedInstance ==
    \A c \in 1..Len(results) :
        (results[c].op = "create" /\ results[c].bound = NoId) =>
            LET r == results[c]
                id == Launched(c)
            IN  /\ DOMAIN instances = DOMAIN r.before \cup {id}
                /\ id \notin DOMAIN r.before
                /\ instance_id = id
                /\ instances[id].name = absolute_role
                /\ r.outcome = "returned" =>
                      /\ Len(r.seen) >= 2
                      /\ Last(r.seen) = "running"
                      /\ \A k \in 1..(Len(r.seen) - 1) : r.seen[k] = "pending"
                      /\ r.value \notin {None, ""}
                      /\ c = Len(results) => host_name = r.value
                /\ (r.outcome # "running" /\ Last(r.seen) # "running") =>
                      /\ r.outcome = "raised"
                      /\ r.value = "RuntimeError"
                /\ (r.outcome = "running" /\ observed # <<>>
                        /\ Last(observed) \notin {"pending", "running"}) =>
                      rpc \in {"transition", "raised"}

\* create has returned on a Box it has bound to the instance it launched, which became
\* running after it was read as pending twice and was given the name ec2-b
C21_Witness ==
    /\ Len(results) = 1
    /\ results[1].op = "create"
    /\ results[1].outcome = "returned"
    /\ results[1].seen = <<"pending", "pending", "running">>
    /\ instance_id = 2
    /\ instances[2].name = absolute_role
    /\ host_name = "ec2-b"

\* call number c was made on the bound Box while its instance was in state s
CalledIn(c, s) ==
    /\ results[c].bound # NoId
    /\ results[c].before[results[c].bound].state = s

\* every element of seq but the last is in S
AllButLastIn(seq, S) == \A k \in 1..(Len(seq) - 1) : seq[k] \in S

\* C22: start on a bound Box whose instance is not stopped raises and makes no
\* start_instances request, stop on a bound Box whose instance is not running raises and
\* makes no stop_instances request. A start that was let in returns only when its
\* __wait_transition has read stopped or pending and then running and the ssh round
\* trip has succeeded; a stop that was let in returns only when its __wait_transition
\* has read running or stopping and then stopped, and raises only when it has read
\* another state.
C22_StartAndStopExpectAndWait ==
    \A c \in 1..Len(results) :
        LET r == results[c]
        IN  /\ (r.op = "start" /\ r.bound # NoId /\ ~CalledIn(c, "stopped")) =>
                  /\ r.outcome = "raised"
                  /\ r.value = "RuntimeError"
                  /\ c = Len(results) => requests = <<"get_all_instances">>
            /\ (r.op = "stop" /\ r.bound # NoId /\ ~CalledIn(c, "running")) =>
                  /\ r.outcome = "raised"
                  /\ r.value = "RuntimeError"
                  /\ c = Len(results) => requests = <<"get_all_instances">>
            /\ (r.op = "start" /\ CalledIn(c, "stopped")) =>
                  /\ c = Len(results) =>
                         requests = <<"get_all_instances", "start_instances">>
                  /\ r.outcome = "returned" =>
                         /\ Last(r.seen) = "running"
                         /\ AllButLastIn(r.seen, {"stopped", "pending"})
                         /\ r.ready
                         /\ r.value \notin {None, ""}
            /\ (r.op = "stop" /\ CalledIn(c, "running")) =>
                  /\ c = Len(results) =>
                         requests = <<"get_all_instances", "stop_instances">>
                  /\ r.outcome = "returned" =>
                         /\ Last(r.seen) = "stopped"
                         /\ AllButLastIn(r.seen, {"running", "stopping"})
                  /\ r.outcome = "raised" =>
                         Last(r.seen) \notin {"running", "stopping", "stopped"}

\* stop has returned after it read running, stopping and stopped, and the start that
\* followed it has returned after it read stopped, pending and running
C22_Witness ==
    /\ Len(results) = 2
    /\ results[1].op = "stop"
    /\ results[1].outcome = "returned"
    /\ results[1].seen = <<"running", "stopping", "stopped">>
    /\ results[2].op = "start"
    /\ results[2].outcome = "returned"
    /\ results[2].seen = <<"stopped", "pending", "running">>
    /\ results[2].ready

\* C23: reboot on a bound Box is stop followed by start. It raises at once, with no
\* stop_instances request, unless the instance is running; it enters start, and so makes
\* the start_instances request, only once its stop has read the state stopped; when its
\* stop raises it makes no further request and raises; and it returns only when its
\* start has read running and the ssh round trip has succeeded.
C23_RebootIsStopThenStart ==
    /\ pc = "reboot_stop" => requests = <<"get_all_instances", "stop_instances">>
    /\ \A c \in 1..Len(results) :
          LET r == results[c]
              last == c = Len(results)
              started == "stop_seen" \in DOMAIN r
          IN  (r.op = "reboot" /\ r.bound # NoId) =>
                 /\ ~CalledIn(c, "running") =>
                       /\ r.outcome = "raised"
                       /\ ~started
                       /\ last => requests = <<"get_all_instances">>
                 /\ started =>
                       /\ Last(r.stop_seen) = "stopped"
                       /\ AllButLastIn(r.stop_seen, {"running", "stopping"})
                       /\ last => requests \in
                             {<<"get_all_instances", "stop_instances", "get_all_instances">>,
                              <<"get_all_instances", "stop_instances", "get_all_instances",
                                "start_instances">>}
                 /\ (last /\ requests # <<>> /\ Last(requests) = "start_instances") => started
                 /\ (CalledIn(c, "running") /\ ~started) =>
                       /\ last => requests = <<"get_all_instances", "stop_instances">>
                       /\ r.outcome # "returned"
                       /\ r.outcome = "raised" =>
                             Last(r.seen) \notin {"running", "stopping", "stopped"}
                 /\ r.outcome = "returned" =>
                       /\ started
                       /\ Last(r.seen) = "running"
                       /\ AllButLastIn(r.seen, {"stopped", "pending"})
                       /\ r.ready
                       /\ r.value \notin {None, ""}
                       /\ last => requests = <<"get_all_instances", "stop_instances",
                                               "get_all_instances", "start_instances">>

\* reboot has returned: its stop read running, stopping and stopped, and its start then
\* read stopped, pending and running and made the ssh round trip
C23_Witness ==
    /\ Len(results) = 1
    /\ results[1].op = "reboot"
    /\ results[1].outcome = "returned"
    /\ results[1].stop_seen = <<"running", "stopping", "stopped">>
    /\ results[1].seen = <<"stopped", "pending", "running">>
    /\ results[1].ready
    /\ Last(requests) = "start_instances"

(***************************************************************************)
(* SpecWaitLive: SpecWait with a thread that goes on running: a step of    *)
(* __wait_transition that can be taken is taken.                           *)
(***************************************************************************)
SpecWaitLive == InitWait /\ [][NextWait]_vars /\ WF_vars(WaitNext)

\* C24: when __wait_transition has read a state that is not in from_states, it ends,
\* by returning or raising, and it reads no further state before it does; the wait of
\* create and adopt, from pending to running, ends by raising when it has read
\* terminated or shutting-down.
C24_WaitEndsOutsideFromStates ==
    /\ (wpc = "loop" /\ state \notin from_states) ~> (wpc \in {"returned", "raised"})
    /\ (/\ wpc = "loop"
        /\ from_states = {"pending"}
        /\ to_state = "running"
        /\ state \in {"terminated", "shutting-down"}) ~> (wpc = "raised")
    /\ [][(wpc = "loop" /\ state \notin from_states)
             => (observed' = observed /\ sleeps' = sleeps
                 /\ wpc' \in {"loop", "returned", "raised"})]_vars

\* the wait from pending to running has raised: the instance was read as pending and,
\* one poll later, as terminated
C24_Witness ==
    /\ wpc = "raised"
    /\ resource.kind = "instance"
    /\ from_states = {"pending"}
    /\ to_state = "running"
    /\ observed = <<"pending", "terminated">>
    /\ sleeps = 1

\* the sleeps of __wait_ready that no update follows: those of __wait_transition and of
\* __wait_hostname_assigned are each followed by one
SleepsWithoutUpdate == sleeps - updates

\* C25: in __wait_ssh_port_open a sleep of one polling interval lies between any two
\* attempts to connect: when attempt number n is under way, the stage has slept n - 1
\* times.
C25_SleepBetweenPortAttempts ==
    rpc \in {"port_connect", "port_finally"} => SleepsWithoutUpdate >= port_attempts - 1

(***************************************************************************)
(* SpecBinding: up to MaxCalls calls of any operation on one Box that is   *)
(* unbound at first. One instance performs its role, whose termination     *)
(* another party may have asked for, and there is one volume.              *)
(***************************************************************************)
InitBinding ==
    /\ \E s \in {"pending", "running", "stopped"} :
          instances = (1 :> [state |-> s, name |-> absolute_role, launch_time |-> 1,
                             public_dns_name |-> ""])
    /\ \E st \in {"creating", "available"} :
          volumes = (1 :> [status |-> st, zone |-> availability_zone,
                           name |-> absolute_name("data"), attach |-> NoId])
    /\ images = <<>>
    /\ instance_id = NoId
    /\ host_name = None
    /\ pc = "idle"
    /\ resource = NoResource
    /\ from_states = {}
    /\ to_state = None
    /\ state_getter = "state"
    /\ state = None
    /\ wpc = "idle"
    /\ sleeps = 0
    /\ updates = 0
    /\ raises = 0
    /\ observed = <<>>
    /\ ReadyIdle
    /\ VolumeIdle
    /\ GuardIdle
    /\ terminating \in {{}, {1}}

NextBinding ==
    \/ BoxNext
    \/ LifeNext
    \/ OpsNext
    \/ WaitNext
    \/ ReadyNext
    \/ ProviderBoots
    \/ ProviderNames
    \/ ProviderFails
    \/ ProviderStopping
    \/ ProviderStopped
    \/ ProviderStarts
    \/ ProviderShutsDown
    \/ ProviderTerminated
    \/ ProviderImageState
    \/ ProviderVolumeAttaches

SpecBinding == InitBinding /\ [][NextBinding]_vars

\* the calls that were made on the unbound Box and have bound it
Binding == {c \in 1..Len(results) : results[c].bound = NoId /\ results[c].op \in {"create", "adopt"}}

\* C26: no step of any operation changes an instance_id that is set, whatever becomes
\* of the instance: every call made after the Box was bound finds it bound to the same
\* instance, and the Box is bound to it now.
C26_BindingIsPermanent ==
    /\ [][instance_id # NoId => instance_id' = instance_id]_vars
    /\ [](\A c \in 1..Len(results) :
             /\ results[c].bound # NoId => instance_id = results[c].bound
             /\ (c > 1 /\ results[c - 1].bound # NoId)
                    => results[c].bound = results[c - 1].bound)

\* the Box was bound by adopt to an instance that a terminate with wait has since
\* seen terminated, and it is bound to it still
C26_Witness ==
    /\ Len(results) = 2
    /\ results[1].op = "adopt"
    /\ results[2].op = "terminate"
    /\ results[2].outcome = "returned"
    /\ results[2].bound = 1
    /\ instances[1].state = "terminated"
    /\ instance_id = 1

\* call number c is a create or an adopt that was made on the unbound Box and has
\* raised after it had begun to wait
FailedWait(c) ==
    /\ results[c].op \in {"create", "adopt"}
    /\ results[c].bound = NoId
    /\ results[c].outcome = "raised"
    /\ "seen" \in DOMAIN results[c]

\* the instances that call number c can have bound the Box to
Bindable(c) ==
    IF results[c].op = "create" THEN {Launched(c)} ELSE Eligible(results[c].before)

C28_FlagFalseWhenIdle ==
    LET frames == threads[1].frames
    IN  /\ frames = <<>> => ~wrapped
        /\ wrapped => (frames # <<>> /\ frames[1].pc \in {"execute", "executing", "finally"})
        /\ frames # <<>> => (frames[1].fn = "wrapper" /\ frames[1].pc # "direct")
        /\ Len(frames) >= 2 =>
              /\ frames[1].pc = "executing"
              /\ wrapped
              /\ threads[1].contexts = <<threads[1].box.host_name>>
        /\ \A r \in ran :
              (r.thread = 1 /\ r.outermost) => r.contexts = <<threads[1].box.host_name>>

\* the second of two fabric tasks has raised out of its function, which ran in the
\* remote context of the Box's host; the thread is in no task and wrapped is false
C28_Witness ==
    /\ threads[1].calls = 2
    /\ threads[1].frames = <<>>
    /\ threads[1].exc = "Exception"
    /\ [thread |-> 1, contexts |-> <<"ec2-a">>, outermost |-> TRUE] \in ran
    /\ ~wrapped

\* C29: adopt( ordinal=k ) on an unbound Box, when n >= 1 instances are eligible and k
\* is negative or k >= n, raises and leaves the Box unbound.
C29_OrdinalOutOfRangeRaises ==
    \A c \in 1..Len(results) :
        (/\ results[c].op = "adopt"
         /\ results[c].bound = NoId
         /\ results[c].arg.ordinal # <<>>
         /\ Cardinality(Eligible(results[c].before)) >= 1
         /\ \/ results[c].arg.ordinal[1] < 0
            \/ results[c].arg.ordinal[1] >= Cardinality(Eligible(results[c].before)))
            => /\ results[c].outcome = "raised"
               /\ LastUnbound(c) => instance_id = NoId

\* call number c is one that ends with __wait_ready
WaitsUntilReady(c) ==
    \/ results[c].op \in {"start", "reboot"}
    \/ results[c].op = "create" /\ results[c].bound = NoId
    \/ results[c].op = "adopt" /\ results[c].bound = NoId /\ results[c].arg.wait_ready

\* C30: when create, start, reboot or adopt( wait_ready=True ) has returned, the Box's
\* host_name is the public_dns_name that __wait_ready read last from the instance,
\* after it had read the state running; it is not empty and it is the name the provider
\* holds for the instance, whatever name the Box held before the call.
C30_HostNameIsTheLatest ==
    LET c == Len(results)
    IN  (c >= 1 /\ WaitsUntilReady(c) /\ results[c].outcome = "returned") =>
            /\ Last(results[c].seen) = "running"
            /\ results[c].value \notin {None, ""}
            /\ host_name = results[c].value
            /\ host_name = instances[instance_id].public_dns_name

\* adopt( wait_ready=True ) has returned on an instance named ec2-a, and the reboot that
\* followed has returned on a Box whose host_name is ec2-b, the name the provider gave
\* the instance when it ran again
C30_Witness ==
    /\ Len(results) = 2
    /\ results[1].op = "adopt"
    /\ results[1].outcome = "returned"
    /\ "seen" \in DOMAIN results[1]
    /\ results[1].value = "ec2-a"
    /\ results[2].op = "reboot"
    /\ results[2].outcome = "returned"
    /\ results[2].value = "ec2-b"
    /\ host_name = "ec2-b"
    /\ instances[1].public_dns_name = "ec2-b"

====
